---- MODULE Spec2Model ----
(***************************************************************************)
(* Model of the NF-e signing-and-transport client of Rust-Nfe-API:         *)
(* the access-key codec (web/src/sefaz/consulta.rs, nfe/src/builder.rs),   *)
(* the SEFAZ client and its response parsers (web/src/sefaz/*.rs), the XML *)
(* signer (web/src/certificado/assinatura.rs) and the GraphQL emitir_nfe   *)
(* mutation (web/src/graphql/resolvers.rs).                                *)
(*                                                                         *)
(* Text is modelled as a sequence of one-character strings; XML text is    *)
(* modelled as a sequence of tokens (see the signer section).              *)
(***************************************************************************)
EXTENDS Integers, Sequences, FiniteSets, TLC

VARIABLES
    kstep,   \* codec: which codec operation produced the current codec state
    kargs,   \* codec: the arguments of the last gerar_chave_acesso / build call
    kres,    \* codec: the Result of the last gerar_chave_acesso / build call
    vin,     \* codec: the text last handed to validar_chave_acesso
    vres,    \* codec: the Result of the last validar_chave_acesso call
    korig,   \* codec: the accepted key that vin was derived from by one replaced digit
    pstep,   \* parsers: "resp" while a response waits, then the parser that ran
    presp,   \* parsers: how the response text was put together
    pxml,    \* parsers: the response text
    pres,    \* parsers: the value the parser returned
    scert,   \* signer: the certificate the AssinadorXml was built with
    sxml,    \* signer: the document in hand (the last signed one, once signed)
    sin,     \* signer: the document handed to the last assinar_* call
    sel,     \* signer: the element the last assinar_* call signs ("" before any)
    sres,    \* signer: the Result of the last assinar_* call
    snsign,  \* signer: how many assinar_* calls were made on the document
    client,  \* the SefazClient: its certificado, ambiente and uf
    gstate,  \* the GraphQLState: certificado and sefaz_client, each None or Some
    cpc,     \* call: "idle", "awaiting" the response of the request sent, or "done"
    ccall,   \* call: the operation called and its arguments
    creqs,   \* call: the HTTP requests the call has sent, in order
    cnet,    \* call: what the transport made of the request
    cparsed, \* call: the response texts the call handed to a parser
    cout,    \* call: what the call returned
    dalt,    \* digest: the document that differs from sin in one character
    dres,    \* digest: the Result of signing dalt with the same assinar_* call
    vest,    \* verifier: the Result of the last validar_estrutura_assinatura call
    vdig,    \* verifier: the Result of the last verificar_digest call
    now,     \* certificate: the clock, Utc::now(), in hours
    pfx,     \* certificate: the container and password handed to from_bytes
    bundle,  \* certificate: the Result of CertificadoA1::from_bytes
    bcli,    \* certificate: the Result of SefazClient::new on the loaded bundle
    iop,     \* requests: "idle", then the operation that ran on the request data
    idados,  \* requests: the DadosInutilizacao or DadosManifestacao in hand
    ires,    \* requests: the Result of its validar()
    iout,    \* requests: the id or event document generated from it
    tasks    \* concurrency: what each of the tasks running side by side is doing

kvars == <<kstep, kargs, kres, vin, vres, korig>>
pvars == <<pstep, presp, pxml, pres>>
svars == <<scert, sxml, sin, sel, sres, snsign>>
cvars == <<client, gstate, cpc, ccall, creqs, cnet, cparsed, cout>>
dvars == <<dalt, dres, vest, vdig>>
bvars == <<now, pfx, bundle, bcli>>
ivars == <<iop, idados, ires, iout>>
tvars == <<tasks>>

-----------------------------------------------------------------------------
(* Characters and number formatting (Rust format!, str::parse)             *)

Digits == {"0", "1", "2", "3", "4", "5", "6", "7", "8", "9"}

DigitSeq == <<"0", "1", "2", "3", "4", "5", "6", "7", "8", "9">>

\* char::to_digit(10) on an ASCII digit
DigitVal(c) == CHOOSE n \in 0..9 : DigitSeq[n + 1] = c

LowerSeq == <<"a", "b", "c", "d", "e", "f", "g", "h", "i", "j", "k", "l", "m",
              "n", "o", "p", "q", "r", "s", "t", "u", "v", "w", "x", "y", "z">>

UpperSeq == <<"A", "B", "C", "D", "E", "F", "G", "H", "I", "J", "K", "L", "M",
              "N", "O", "P", "Q", "R", "S", "T", "U", "V", "W", "X", "Y", "Z">>

ToUpperChar(c) ==
    IF \E i \in 1..26 : LowerSeq[i] = c
    THEN UpperSeq[CHOOSE i \in 1..26 : LowerSeq[i] = c]
    ELSE c

\* str::to_uppercase on ASCII text
ToUpper(s) == [i \in 1..Len(s) |-> ToUpperChar(s[i])]

AllDigits(s) == \A i \in 1..Len(s) : s[i] \in Digits

\* chars().filter(|c| c.is_ascii_digit()).collect()
FilterDigits(s) == SelectSeq(s, LAMBDA c : c \in Digits)

RECURSIVE Dec(_)
\* Display of an unsigned integer: its decimal digits, no padding
Dec(n) == IF n < 10 THEN <<DigitSeq[n + 1]>>
          ELSE Dec(n \div 10) \o <<DigitSeq[(n % 10) + 1]>>

RECURSIVE Repeat(_, _)
Repeat(c, n) == IF n <= 0 THEN <<>> ELSE <<c>> \o Repeat(c, n - 1)

\* format!("{:0w}", n) for an unsigned integer: zero-padded to AT LEAST w digits
FmtZero(n, w) == Repeat("0", w - Len(Dec(n))) \o Dec(n)

\* format!("{:0w}", s) for a string: the 0 flag only affects numbers, a string is
\* left-aligned and padded with the fill character (space) to at least w chars
FmtStr(s, w) == s \o Repeat(" ", w - Len(s))

RECURSIVE DigitsValue(_, _)
DigitsValue(s, i) == IF i = 0 THEN 0 ELSE 10 * DigitsValue(s, i - 1) + DigitVal(s[i])

\* str::parse::<uN>() of a text of at most 9 characters: -1 stands for Err
ParseUnsigned(s, max) ==
    IF Len(s) = 0 \/ ~AllDigits(s) THEN -1
    ELSE IF DigitsValue(s, Len(s)) > max THEN -1
    ELSE DigitsValue(s, Len(s))

MaxU8 == 255
MaxU16 == 65535

-----------------------------------------------------------------------------
(* Access-key codec: web/src/sefaz/consulta.rs                             *)

\* the match of gerar_chave_acesso: sigla -> two-digit code text
GerarUFTable ==
    { <<"A","C","1","2">>, <<"A","L","2","7">>, <<"A","P","1","6">>, <<"A","M","1","3">>,
      <<"B","A","2","9">>, <<"C","E","2","3">>, <<"D","F","5","3">>, <<"E","S","3","2">>,
      <<"G","O","5","2">>, <<"M","A","2","1">>, <<"M","T","5","1">>, <<"M","S","5","0">>,
      <<"M","G","3","1">>, <<"P","A","1","5">>, <<"P","B","2","5">>, <<"P","R","4","1">>,
      <<"P","E","2","6">>, <<"P","I","2","2">>, <<"R","J","3","3">>, <<"R","N","2","4">>,
      <<"R","S","4","3">>, <<"R","O","1","1">>, <<"R","R","1","4">>, <<"S","C","4","2">>,
      <<"S","P","3","5">>, <<"S","E","2","8">>, <<"T","O","1","7">> }

\* the match of codigo_uf_para_sigla: numeric code -> sigla
SiglaTable ==
    { <<12,"A","C">>, <<27,"A","L">>, <<16,"A","P">>, <<13,"A","M">>,
      <<29,"B","A">>, <<23,"C","E">>, <<53,"D","F">>, <<32,"E","S">>,
      <<52,"G","O">>, <<21,"M","A">>, <<51,"M","T">>, <<50,"M","S">>,
      <<31,"M","G">>, <<15,"P","A">>, <<25,"P","B">>, <<41,"P","R">>,
      <<26,"P","E">>, <<22,"P","I">>, <<33,"R","J">>, <<24,"R","N">>,
      <<43,"R","S">>, <<11,"R","O">>, <<14,"R","R">>, <<42,"S","C">>,
      <<35,"S","P">>, <<28,"S","E">>, <<17,"T","O">> }

\* a table with two siglas exchanged, as a mistyped match arm would have it
SiglaTableSwapped ==
    (SiglaTable \ { <<35,"S","P">>, <<33,"R","J">> }) \cup { <<35,"R","J">>, <<33,"S","P">> }

codigo_uf_para_sigla_swapped(codigo) ==
    IF \E t \in SiglaTableSwapped : t[1] = codigo
    THEN LET t == CHOOSE t \in SiglaTableSwapped : t[1] = codigo IN <<t[2], t[3]>>
    ELSE <<>>

\* codigo_uf_para_sigla: <<>> stands for None
codigo_uf_para_sigla(codigo) ==
    IF \E t \in SiglaTable : t[1] = codigo
    THEN LET t == CHOOSE t \in SiglaTable : t[1] = codigo IN <<t[2], t[3]>>
    ELSE <<>>

pesos == <<2, 3, 4, 5, 6, 7, 8, 9>>

RECURSIVE SomaPonderada(_, _, _)
\* the loop of calcular_dv_mod11: chars().rev(), peso_idx advances on digits only
SomaPonderada(chave, i, peso_idx) ==
    IF i = 0 THEN 0
    ELSE IF chave[i] \in Digits
         THEN DigitVal(chave[i]) * pesos[(peso_idx % 8) + 1]
              + SomaPonderada(chave, i - 1, peso_idx + 1)
         ELSE SomaPonderada(chave, i - 1, peso_idx)

\* a check digit that maps one more remainder to 0
calcular_dv_mod11_resto2(chave) ==
    LET resto == SomaPonderada(chave, Len(chave), 0) % 11
    IN  IF resto <= 2 THEN 0 ELSE 11 - resto

calcular_dv_mod11(chave) ==
    LET resto == SomaPonderada(chave, Len(chave), 0) % 11
    IN  IF resto = 0 \/ resto = 1 THEN 0 ELSE 11 - resto

KeyErr(msg) == [ok |-> FALSE, err |-> msg, chave |-> <<>>]

gerar_chave_acesso(uf, ano_mes, cnpj, modelo, serie, numero, tipo_emissao, codigo_numerico) ==
    LET up == ToUpper(uf)
        known == Len(up) = 2 /\ \E t \in GerarUFTable : t[1] = up[1] /\ t[2] = up[2]
        row == CHOOSE t \in GerarUFTable : t[1] = up[1] /\ t[2] = up[2]
        codigo_uf == <<row[3], row[4]>>
        cnpj_limpo == FilterDigits(cnpj)
        chave_sem_dv == codigo_uf \o ano_mes \o cnpj_limpo \o FmtZero(modelo, 2)
                        \o FmtZero(serie, 3) \o FmtZero(numero, 9)
                        \o Dec(tipo_emissao) \o FmtZero(codigo_numerico, 8)
    IN  IF ~known THEN KeyErr("UF invalida")
        ELSE IF Len(cnpj_limpo) # 14 THEN KeyErr("CNPJ invalido")
        ELSE IF Len(chave_sem_dv) # 43 THEN KeyErr("Chave com tamanho invalido")
        ELSE [ok |-> TRUE, err |-> "",
              chave |-> chave_sem_dv \o Dec(calcular_dv_mod11(chave_sem_dv))]

ValErr(msg) ==
    [ok |-> FALSE, err |-> msg, chave |-> <<>>, uf |-> <<>>, ano_mes |-> <<>>,
     cnpj |-> <<>>, modelo |-> 0, serie |-> 0, numero |-> 0, tipo_emissao |-> 0,
     codigo_numerico |-> 0, dv |-> 0]

\* the slice chave_limpa[a..b] of Rust (0-based, end exclusive)
Slice(s, a, b) == SubSeq(s, a + 1, b)

validar_chave_acesso(chave) ==
    LET chave_limpa == FilterDigits(chave) IN
    IF Len(chave_limpa) # 44 THEN ValErr("Chave deve ter 44 digitos")
    ELSE
    LET codigo_uf == ParseUnsigned(Slice(chave_limpa, 0, 2), MaxU8)
        ano_mes == Slice(chave_limpa, 2, 6)
        cnpj == Slice(chave_limpa, 6, 20)
        modelo == ParseUnsigned(Slice(chave_limpa, 20, 22), MaxU8)
        serie == ParseUnsigned(Slice(chave_limpa, 22, 25), MaxU16)
        numero == ParseUnsigned(Slice(chave_limpa, 25, 34), 2147483647)
        tipo_emissao == ParseUnsigned(Slice(chave_limpa, 34, 35), MaxU8)
        codigo_numerico == ParseUnsigned(Slice(chave_limpa, 35, 43), 2147483647)
        dv_informado == ParseUnsigned(Slice(chave_limpa, 43, 44), MaxU8)
        dv_calculado == calcular_dv_mod11(Slice(chave_limpa, 0, 43))
        uf == codigo_uf_para_sigla(codigo_uf)
    IN  IF codigo_uf = -1 THEN ValErr("UF invalida")
        ELSE IF modelo = -1 THEN ValErr("Modelo invalido")
        ELSE IF serie = -1 THEN ValErr("Serie invalida")
        ELSE IF numero = -1 THEN ValErr("Numero invalido")
        ELSE IF tipo_emissao = -1 THEN ValErr("Tipo emissao invalido")
        ELSE IF codigo_numerico = -1 THEN ValErr("Codigo numerico invalido")
        ELSE IF dv_informado = -1 THEN ValErr("DV invalido")
        ELSE IF dv_informado # dv_calculado THEN ValErr("DV invalido: esperado")
        ELSE IF uf = <<>> THEN ValErr("Codigo UF invalido")
        ELSE [ok |-> TRUE, err |-> "", chave |-> chave_limpa, uf |-> uf,
              ano_mes |-> ano_mes, cnpj |-> cnpj, modelo |-> modelo, serie |-> serie,
              numero |-> numero, tipo_emissao |-> tipo_emissao,
              codigo_numerico |-> codigo_numerico, dv |-> dv_informado]

-----------------------------------------------------------------------------
(* Access key of the NF-e builder: nfe/src/builder.rs                      *)

RECURSIVE SomaEnumerada(_, _)
\* the loop of calcular_dv: chars().rev().enumerate(), the weight index is the
\* position i of the character, whether or not it is a digit
SomaEnumerada(chave, i) ==
    IF i = 0 THEN 0
    ELSE (IF chave[i] \in Digits
          THEN DigitVal(chave[i]) * pesos[((Len(chave) - i) % 8) + 1]
          ELSE 0)
         + SomaEnumerada(chave, i - 1)

\* a check digit that maps only the remainder 0 to 0
calcular_dv_so_resto0(chave) ==
    LET resto == SomaEnumerada(chave, Len(chave)) % 11
    IN  IF resto < 1 THEN 0 ELSE 11 - resto

calcular_dv(chave) ==
    LET resto == SomaEnumerada(chave, Len(chave)) % 11
    IN  IF resto < 2 THEN 0 ELSE 11 - resto

\* NfeBuilder::emit_cnpj: cnpj.replace(&['.', '/', '-'][..], "")
emit_cnpj(cnpj) == SelectSeq(cnpj, LAMBDA c : c \notin {".", "/", "-"})

\* NfeBuilder::build, the part that decides the result and the access key.
\* b.codigo_uf, b.numero: -1 stands for None; b.serie, b.modelo: -1 for None
\* (defaults 1 and 55); b.cnpj_set: whether emit_cnpj was called; b.aamm: the
\* clock formatted "%y%m"; b.rand: the value of rand_u32() % 100000000.
NfeBuilder_build(b) ==
    IF b.codigo_uf = -1 THEN KeyErr("Codigo UF e obrigatorio")
    ELSE IF b.numero = -1 THEN KeyErr("Numero e obrigatorio")
    ELSE IF ~b.natureza THEN KeyErr("Natureza da operacao e obrigatoria")
    ELSE IF ~b.municipio THEN KeyErr("Codigo do municipio e obrigatorio")
    ELSE IF b.itens = 0 THEN KeyErr("Pelo menos um item e obrigatorio")
    ELSE
    LET serie == IF b.serie = -1 THEN 1 ELSE b.serie
        modelo == IF b.modelo = -1 THEN 55 ELSE b.modelo
        codigo_numerico == FmtZero(b.rand, 8)
        cnpj_emit == IF b.cnpj_set THEN emit_cnpj(b.cnpj) ELSE <<>>
        chave_sem_dv == FmtZero(b.codigo_uf, 2) \o b.aamm \o FmtStr(cnpj_emit, 14)
                        \o FmtZero(modelo, 2) \o FmtZero(serie, 3) \o FmtZero(b.numero, 9)
                        \o FmtZero(1, 1) \o FmtStr(codigo_numerico, 8)
        dv == calcular_dv(chave_sem_dv)
    IN  [ok |-> TRUE, err |-> "", chave |-> chave_sem_dv \o Dec(dv)]

-----------------------------------------------------------------------------
(* XML text as tokens.  A text is a sequence of tokens: an opening tag      *)
(* (k = "open", name n, attributes attrs as <<name, value>> pairs), a       *)
(* self-closing tag (k = "empty"), a closing tag (k = "close"), character   *)
(* data (k = "text", the characters in v), white space standing between     *)
(* tags or at either end (k = "ws", the characters in v) and the XML        *)
(* declaration (k = "decl").  d carries the text a digest or signature was  *)
(* computed from.  str::find of a tag is a search for the first token of    *)
(* that tag.  "LF", "CR" and "TAB" stand for the control characters.        *)

Tok(k, n, attrs, v, d) == [k |-> k, n |-> n, attrs |-> attrs, v |-> v, d |-> d]

Open(n) == Tok("open", n, <<>>, <<>>, <<>>)
OpenAttr(n, attrs) == Tok("open", n, attrs, <<>>, <<>>)
OpenId(n, id) == Tok("open", n, << <<"Id", id>> >>, <<>>, <<>>)
Empty(n, attrs) == Tok("empty", n, attrs, <<>>, <<>>)
Close(n) == Tok("close", n, <<>>, <<>>, <<>>)
Text(v) == Tok("text", "", <<>>, v, <<>>)
Ws(v) == Tok("ws", "", <<>>, v, <<>>)
Decl == Tok("decl", "xml", <<>>, <<>>, <<>>)

\* str::find: the least of the positions that match, 0 when none does
First(S) == IF S = {} THEN 0 ELSE CHOOSE i \in S : \A j \in S : i <= j

None == [some |-> FALSE, val |-> <<>>]
Some(x) == [some |-> TRUE, val |-> x]

\* extract_xml_value (webservice.rs) and extrair_tag (inutilizacao.rs,
\* distribuicao.rs, manifesto.rs): the text between the first "<tag>" and the
\* first "</tag>" after it
extract_xml_value(xml, tag) ==
    LET start == First({ i \in 1..Len(xml) : xml[i] = Open(tag) })
        end == First({ i \in (start + 1)..Len(xml) : xml[i] = Close(tag) })
    IN  IF start = 0 THEN None
        ELSE IF end = 0 THEN None
        ELSE Some(SubSeq(xml, start + 1, end - 1))

\* Option<String>::unwrap_or_default, unwrap_or_else(|| default)
UnwrapOr(o, default) == IF o.some THEN o.val ELSE default

\* the String a text of the given characters is
Str(v) == IF v = <<>> THEN <<>> ELSE <<Text(v)>>

\* s.parse::<u16>() of an extracted value: an optional '+', then digits only,
\* value at most 65535; -1 stands for Err
ParseU16(val) ==
    IF Len(val) # 1 \/ val[1].k # "text" THEN -1
    ELSE LET v == val[1].v
             digs == IF v[1] = "+" THEN Tail(v) ELSE v
         IN  ParseUnsigned(digs, MaxU16)

\* .and_then(|s| s.parse::<u16>().ok()).unwrap_or(0)
StatusU16(o) == IF o.some /\ ParseU16(o.val) # -1 THEN ParseU16(o.val) ELSE 0

ErroDesconhecido ==
    Str(<<"E","r","r","o"," ","d","e","s","c","o","n","h","e","c","i","d","o">>)

Res(sucesso, codigo, motivo) ==
    [ok |-> TRUE, sucesso |-> sucesso, codigo_status |-> codigo, motivo |-> motivo]

\* SefazClient::parsear_status_servico (online is its success flag)
parsear_status_servico(xml) ==
    LET c_stat == UnwrapOr(extract_xml_value(xml, "cStat"), <<>>)
        x_motivo == UnwrapOr(extract_xml_value(xml, "xMotivo"), <<>>)
    IN  Res(c_stat = Str(<<"1","0","7">>), c_stat, x_motivo)

\* a lookup parser that forgets the cancelled code
parsear_consulta_so100(xml) ==
    LET c_stat == UnwrapOr(extract_xml_value(xml, "cStat"), <<>>)
        x_motivo == UnwrapOr(extract_xml_value(xml, "xMotivo"), <<>>)
    IN  Res(c_stat = Str(<<"1","0","0">>), c_stat, x_motivo)

\* SefazClient::parsear_consulta
parsear_consulta(xml) ==
    LET c_stat == UnwrapOr(extract_xml_value(xml, "cStat"), <<>>)
        x_motivo == UnwrapOr(extract_xml_value(xml, "xMotivo"), <<>>)
    IN  Res(c_stat = Str(<<"1","0","0">>) \/ c_stat = Str(<<"1","0","1">>), c_stat, x_motivo)

\* SefazClient::parsear_autorizacao
parsear_autorizacao(xml) ==
    LET c_stat == UnwrapOr(extract_xml_value(xml, "cStat"), <<>>)
        x_motivo == UnwrapOr(extract_xml_value(xml, "xMotivo"), <<>>)
    IN  Res(c_stat = Str(<<"1","0","0">>) \/ c_stat = Str(<<"1","0","4">>), c_stat, x_motivo)

\* SefazClient::parsear_evento
parsear_evento(xml) ==
    LET c_stat == UnwrapOr(extract_xml_value(xml, "cStat"), <<>>)
        x_motivo == UnwrapOr(extract_xml_value(xml, "xMotivo"), <<>>)
    IN  Res(c_stat = Str(<<"1","3","5">>) \/ c_stat = Str(<<"1","3","6">>), c_stat, x_motivo)

\* parsear_resposta_inutilizacao
parsear_resposta_inutilizacao(xml) ==
    LET codigo_status == StatusU16(extract_xml_value(xml, "cStat"))
        descricao == UnwrapOr(extract_xml_value(xml, "xMotivo"), ErroDesconhecido)
    IN  Res(codigo_status = 102, codigo_status, descricao)

\* parsear_resposta_distribuicao
parsear_resposta_distribuicao(xml) ==
    LET codigo_status == StatusU16(extract_xml_value(xml, "cStat"))
        descricao == UnwrapOr(extract_xml_value(xml, "xMotivo"), ErroDesconhecido)
    IN  Res(codigo_status = 137 \/ codigo_status = 138, codigo_status, descricao)

\* a manifest parser that reports the reason with its blanks removed
parsear_resposta_manifestacao_trim(xml) ==
    LET codigo_status == StatusU16(extract_xml_value(xml, "cStat"))
        descricao == UnwrapOr(extract_xml_value(xml, "xMotivo"), ErroDesconhecido)
        trimmed == IF Len(descricao) = 1 /\ descricao[1].k = "text"
                   THEN Str(SelectSeq(descricao[1].v, LAMBDA c : c # " "))
                   ELSE descricao
    IN  Res(codigo_status = 135 \/ codigo_status = 136, codigo_status, trimmed)

\* parsear_resposta_manifestacao
parsear_resposta_manifestacao(xml) ==
    LET codigo_status == StatusU16(extract_xml_value(xml, "cStat"))
        descricao == UnwrapOr(extract_xml_value(xml, "xMotivo"), ErroDesconhecido)
    IN  Res(codigo_status = 135 \/ codigo_status = 136, codigo_status, descricao)

-----------------------------------------------------------------------------
(* XML signer: web/src/certificado/assinatura.rs                           *)

\* element names of which another name of the documents is a proper extension,
\* so that the text "<name" is also found at the longer name's tag
PrefixPairs == { <<"infNFe", "infNFeSupl">>, <<"Signature", "SignatureValue">>,
                 <<"Signature", "SignatureMethod">> }

\* the text "<element" occurs at the start of tag token t
StartsTag(t, element) ==
    /\ t.k \in {"open", "empty"}
    /\ (t.n = element \/ <<element, t.n>> \in PrefixPairs)

SignErr(msg) == [kind |-> "err", err |-> msg, xml |-> <<>>]
SignPanic == [kind |-> "panic", err |-> "slice index starts after its end", xml |-> <<>>]

\* find_element: the first "<element" and the first "</element>" of the whole
\* text, searched independently of each other
find_element(xml, element) ==
    LET start == First({ i \in 1..Len(xml) : StartsTag(xml[i], element) })
        end == First({ i \in 1..Len(xml) : xml[i] = Close(element) })
    IN  IF start = 0 THEN [ok |-> FALSE, start |-> 0, end |-> 0, err |-> "Elemento nao encontrado"]
        ELSE IF end = 0 THEN [ok |-> FALSE, start |-> 0, end |-> 0,
                              err |-> "Fim do elemento nao encontrado"]
        ELSE [ok |-> TRUE, start |-> start, end |-> end, err |-> ""]

HasId(t) == \E i \in 1..Len(t.attrs) : t.attrs[i][1] = "Id"
IdOf(t) == t.attrs[CHOOSE i \in 1..Len(t.attrs) : t.attrs[i][1] = "Id"][2]

\* extract_id: the value of the first Id=" of the element's text, whichever
\* tag inside the element it belongs to
extract_id(elem) ==
    LET i == First({ j \in 1..Len(elem) : HasId(elem[j]) })
    IN  IF i = 0 THEN [ok |-> FALSE, id |-> ""] ELSE [ok |-> TRUE, id |-> IdOf(elem[i])]

Blank == {" ", "LF", "CR", "TAB"}

RECURSIVE NormalizeNewlines(_)
\* replace("\r\n", "\n").replace("\r", "\n")
NormalizeNewlines(v) ==
    IF v = <<>> THEN <<>>
    ELSE IF Len(v) >= 2 /\ v[1] = "CR" /\ v[2] = "LF"
         THEN <<"LF">> \o NormalizeNewlines(SubSeq(v, 3, Len(v)))
    ELSE IF v[1] = "CR" THEN <<"LF">> \o NormalizeNewlines(Tail(v))
    ELSE <<v[1]>> \o NormalizeNewlines(Tail(v))

RECURSIVE TrimStartChars(_)
TrimStartChars(v) ==
    IF v # <<>> /\ v[1] \in Blank THEN TrimStartChars(Tail(v)) ELSE v

\* str::trim_start on a text: leading white space goes
TrimStart(xml) ==
    IF xml = <<>> THEN <<>>
    ELSE IF xml[1].k = "ws" THEN Tail(xml)
    ELSE IF xml[1].k = "text"
         THEN (IF TrimStartChars(xml[1].v) = <<>> THEN Tail(xml)
               ELSE <<Text(TrimStartChars(xml[1].v))>> \o Tail(xml))
    ELSE xml

IsTag(t) == t.k \in {"open", "empty", "close", "decl"}

\* Regex ">\s+<" replaced by "><": white space with a tag on either side goes
DropInnerWs(xml) ==
    LET inner(i) == /\ xml[i].k = "ws"
                    /\ i > 1 /\ i < Len(xml)
                    /\ IsTag(xml[i - 1]) /\ IsTag(xml[i + 1])
        Kept(i) == ~inner(i)
        kept == SelectSeq([i \in 1..Len(xml) |-> i], Kept)
    IN  [j \in 1..Len(kept) |-> xml[kept[j]]]

NormalizeTok(t) ==
    IF t.k \in {"text", "ws"} THEN [t EXCEPT !.v = NormalizeNewlines(t.v)] ELSE t

\* AssinadorXml::canonicalize
canonicalize(xml) ==
    LET decl == First({ i \in 1..Len(xml) : xml[i].k = "decl" })
        nodecl == IF decl = 0 THEN xml ELSE TrimStart(SubSeq(xml, decl + 1, Len(xml)))
        lf == [i \in 1..Len(nodecl) |-> NormalizeTok(nodecl[i])]
    IN  DropInnerWs(lf)

\* base64 of the SHA-256 of a text: a text that determines, and is determined
\* by, the text hashed
DigestB64(canonical) == Tok("text", "", <<>>, <<"sha256">>, canonical)

\* base64 of the RSA PKCS#1 v1.5 signature of a text under a key
SignatureB64(cert, data) == Tok("text", "", <<>>, <<"rsa", cert.nome>>, data)

\* CertificadoA1::cert_base64
cert_base64(cert) == Text(<<"x509", cert.nome>>)

Alg(n) == Empty(n, << <<"Algorithm", "uri">> >>)

create_signed_info(reference_id, digest_value) ==
    << OpenAttr("SignedInfo", << <<"xmlns", "xmldsig">> >>),
       Alg("CanonicalizationMethod"),
       Alg("SignatureMethod"),
       OpenAttr("Reference", << <<"URI", <<"#">> \o reference_id>> >>),
       Open("Transforms"), Alg("Transform"), Alg("Transform"), Close("Transforms"),
       Alg("DigestMethod"),
       Open("DigestValue"), digest_value, Close("DigestValue"),
       Close("Reference"),
       Close("SignedInfo") >>

create_signature_element(signed_info, signature_value, cert_b64) ==
    << OpenAttr("Signature", << <<"xmlns", "xmldsig">> >>) >>
    \o signed_info
    \o << Open("SignatureValue"), signature_value, Close("SignatureValue"),
          Open("KeyInfo"), Open("X509Data"),
          Open("X509Certificate"), cert_b64, Close("X509Certificate"),
          Close("X509Data"), Close("KeyInfo"),
          Close("Signature") >>

\* insert_signature: the signature goes right after position
insert_signature(xml, signature, position) ==
    SubSeq(xml, 1, position) \o signature \o SubSeq(xml, position + 1, Len(xml))

\* AssinadorXml::assinar_elemento with the certificate cert
assinar_elemento(cert, xml, element_name) ==
    LET f == find_element(xml, element_name) IN
    IF ~f.ok THEN SignErr(f.err)
    ELSE IF f.start > f.end + 1 THEN SignPanic
    ELSE
    LET elem_content == SubSeq(xml, f.start, f.end)
        id == extract_id(elem_content)
        canonical == canonicalize(elem_content)
        digest_b64 == DigestB64(canonical)
        signed_info == create_signed_info(id.id, digest_b64)
        signed_info_canonical == canonicalize(signed_info)
        signature_b64 == SignatureB64(cert, signed_info_canonical)
        signature_element ==
            create_signature_element(signed_info, signature_b64, cert_base64(cert))
    IN  IF ~id.ok THEN SignErr("Atributo Id nao encontrado")
        ELSE IF ~cert.keyok THEN SignErr("Erro ao carregar chave privada")
        ELSE [kind |-> "ok", err |-> "",
              xml |-> insert_signature(xml, signature_element, f.end)]

assinar_nfe(cert, xml) == assinar_elemento(cert, xml, "infNFe")
assinar_evento(cert, xml) == assinar_elemento(cert, xml, "infEvento")
assinar_lote(cert, xml) == assinar_elemento(cert, xml, "infRec")
assinar_inutilizacao(cert, xml) == assinar_elemento(cert, xml, "infInut")

-----------------------------------------------------------------------------
(* Inputs of the codec operations                                          *)

CnpjDigitos == <<"1","2","3","4","5","6","7","8","0","0","0","1","9","9">>
CnpjFormatado ==
    <<"1","2",".","3","4","5",".","6","7","8","/","0","0","0","1","-","9","9">>
CnpjEspacado ==
    <<"1","2"," ","3","4","5"," ","6","7","8"," ","0","0","0","1"," ","9","9">>
CpfDigitos == <<"1","2","3","4","5","6","7","8","9","0","1">>

AnoMesOk == <<"2","4","0","6">>
AnoMesInputs == { AnoMesOk, <<"9","9","1","2">>, <<"2","4","0">>, <<"2","4","a","6">> }

Siglas == { <<t[1], t[2]>> : t \in GerarUFTable }
UFInputs == Siglas \cup { <<"s","p">>, <<"X","X">>, <<>> }

\* bounds of the seed keys: numero in 0..MaxSeedNumero, codigo in 0..MaxSeedCodigo
MaxSeedNumero == 2
MaxSeedCodigo == 10

KeyArgs(uf, am, cnpj, mo, se, nu, tp, cn) ==
    [uf |-> uf, ano_mes |-> am, cnpj |-> cnpj, modelo |-> mo, serie |-> se,
     numero |-> nu, tipo_emissao |-> tp, codigo_numerico |-> cn]

\* few keys, every one well-formed: the keys that are then altered
SeedFields ==
    { KeyArgs(uf, AnoMesOk, CnpjDigitos, 55, 1, nu, 1, cn) :
        uf \in { <<"S","P">>, <<"R","J">> }, nu \in 0..MaxSeedNumero,
        cn \in 0..MaxSeedCodigo }

\* every sigla, and for one sigla every combination of in-range and
\* out-of-range values of the other fields
WideFields ==
    { KeyArgs(uf, AnoMesOk, CnpjDigitos, 55, 1, nu, 1, 12345678) :
        uf \in UFInputs, nu \in 0..MaxSeedNumero }
    \cup
    { KeyArgs(<<"S","P">>, f[1], f[2], f[3], f[4], f[5], f[6], f[7]) :
        f \in AnoMesInputs \X { CnpjDigitos, CnpjFormatado, CpfDigitos }
              \X { 0, 55, 99, 100 } \X { 0, 1, 999, 1000 }
              \X { 0, 1, 999999999, 1000000000 } \X { 0, 1, 9, 10 }
              \X { 0, 12345678, 99999999, 100000000 } }

BuildArgs ==
    [codigo_uf : { -1, 0, 35, 99, 100 }, numero : { -1, 1, 999999999, 1000000000 },
     serie : { -1, 0, 999, 1000 }, modelo : { -1, 55, 65 },
     natureza : BOOLEAN, municipio : BOOLEAN, itens : { 0, 1 },
     cnpj_set : { TRUE }, cnpj : { CnpjDigitos, CnpjFormatado, CnpjEspacado, CpfDigitos },
     aamm : { AnoMesOk }, rand : { 0, 99999999 }]
    \cup
    [codigo_uf : { -1, 0, 35, 99, 100 }, numero : { -1, 1, 999999999, 1000000000 },
     serie : { -1, 0, 999, 1000 }, modelo : { -1, 55, 65 },
     natureza : BOOLEAN, municipio : BOOLEAN, itens : { 0, 1 },
     cnpj_set : { FALSE }, cnpj : { <<>> },
     aamm : { AnoMesOk }, rand : { 0, 99999999 }]

\* the characters a key text is edited with
EditChars == { "7", " ", "-", "a" }

-----------------------------------------------------------------------------
(* Codec operations as actions                                             *)

\* the codec state before any operation has run on the arguments
KBlank ==
    /\ kres = KeyErr("")
    /\ vin = <<>>
    /\ vres = ValErr("")
    /\ korig = <<>>

\* a call gerar_chave_acesso(kargs...)
Gerar ==
    /\ kstep = "args"
    /\ kstep' = "gerada"
    /\ kres' = gerar_chave_acesso(kargs.uf, kargs.ano_mes, kargs.cnpj, kargs.modelo,
                                  kargs.serie, kargs.numero, kargs.tipo_emissao,
                                  kargs.codigo_numerico)
    /\ UNCHANGED <<kargs, vin, vres, korig, pvars, svars, cvars, dvars, bvars, ivars, tvars>>

\* a call NfeBuilder::...::build() on a builder filled as kargs says
Build ==
    /\ kstep = "bargs"
    /\ kstep' = "build"
    /\ kres' = NfeBuilder_build(kargs)
    /\ UNCHANGED <<kargs, vin, vres, korig, pvars, svars, cvars, dvars, bvars, ivars, tvars>>

\* validar_chave_acesso applied to the key just generated
ValidarGerada ==
    /\ kstep = "gerada"
    /\ kres.ok
    /\ kstep' = "validada"
    /\ vin' = kres.chave
    /\ vres' = validar_chave_acesso(kres.chave)
    /\ UNCHANGED <<kargs, kres, korig, pvars, svars, cvars, dvars, bvars, ivars, tvars>>

\* validar_chave_acesso applied to an accepted key with one digit replaced
Corromper ==
    /\ kstep = "validada"
    /\ vres.ok
    /\ Len(vin) = 44
    /\ \E pos \in 1..44 : \E d \in Digits \ {vin[pos]} :
        /\ kstep' = "corrompida"
        /\ korig' = vin
        /\ vin' = [vin EXCEPT ![pos] = d]
        /\ vres' = validar_chave_acesso([vin EXCEPT ![pos] = d])
    /\ UNCHANGED <<kargs, kres, pvars, svars, cvars, dvars, bvars, ivars, tvars>>

InsertAt(s, p, c) == SubSeq(s, 1, p) \o <<c>> \o SubSeq(s, p + 1, Len(s))
RemoveAt(s, p) == SubSeq(s, 1, p - 1) \o SubSeq(s, p + 1, Len(s))

\* the texts obtained from a generated key by one insertion, one replacement
\* or one removal
Edicoes(k) ==
    { InsertAt(k, p, c) : p \in 0..Len(k), c \in EditChars }
    \cup { [k EXCEPT ![p] = c] : p \in 1..Len(k), c \in EditChars }
    \cup { RemoveAt(k, p) : p \in 1..Len(k) }
    \cup { <<>> }

\* validar_chave_acesso applied to an arbitrary text
ValidarTexto ==
    /\ kstep = "gerada"
    /\ kres.ok
    /\ \E s \in Edicoes(kres.chave) :
        /\ kstep' = "texto"
        /\ vin' = s
        /\ vres' = validar_chave_acesso(s)
    /\ UNCHANGED <<kargs, kres, korig, pvars, svars, cvars, dvars, bvars, ivars, tvars>>

-----------------------------------------------------------------------------
(* Responses of the authority and the parsers as actions                   *)

\* bound of the status codes: every code 000..MaxCStat is fed to every parser
MaxCStat == 999

CodigosTresDigitos == { FmtZero(n, 3) : n \in 0..MaxCStat }

\* codes every response shape is built with: the documented ones, some that
\* are not documented, and texts that are not three digits
CodigosEscolhidos ==
    { FmtZero(n, 3) : n \in {100, 101, 102, 104, 107, 110, 128, 135, 136, 137, 138, 539} }
    \cup { <<"0","1","0","2">>, <<"+","1","0","7">>, <<"a","b","c">>, <<"1","0","7"," ">>,
           <<"9","9","9","9","9","9">> }

MotivoSimples == <<"O","K">>
Motivos == { MotivoSimples, <<" ","R","e","j"," ">>, <<"1","0","0">> }

Shapes == {"cm", "mc", "c", "m", "none", "unclosed", "empty", "lote"}

Resp(shape, code, motivo, code2) ==
    [shape |-> shape, code |-> code, motivo |-> motivo, code2 |-> code2]

Respostas ==
    { Resp("cm", c, MotivoSimples, <<>>) : c \in CodigosTresDigitos }
    \cup { Resp(sh, c, m, <<>>) : sh \in Shapes \ {"lote"}, c \in CodigosEscolhidos, m \in Motivos }
    \cup { Resp("lote", c, m, c2) : c \in CodigosEscolhidos, m \in Motivos,
                                    c2 \in { <<"1","0","0">>, <<"5","3","9">> } }

CStatEl(c) == <<Open("cStat"), Text(c), Close("cStat")>>
MotivoEl(m) == <<Open("xMotivo"), Text(m), Close("xMotivo")>>

\* the response text of the given shape
RespXml(r) ==
    <<OpenAttr("ret", << <<"versao", "4.00">> >>)>> \o
    (CASE r.shape = "cm" -> CStatEl(r.code) \o MotivoEl(r.motivo)
       [] r.shape = "mc" -> MotivoEl(r.motivo) \o CStatEl(r.code)
       [] r.shape = "c" -> CStatEl(r.code)
       [] r.shape = "m" -> MotivoEl(r.motivo)
       [] r.shape = "none" -> <<>>
       [] r.shape = "unclosed" -> <<Open("cStat"), Text(r.code)>> \o MotivoEl(r.motivo)
       [] r.shape = "empty" -> <<Open("cStat"), Close("cStat")>> \o MotivoEl(r.motivo)
       [] r.shape = "lote" -> CStatEl(r.code) \o MotivoEl(r.motivo)
                              \o <<Open("infProt")>> \o CStatEl(r.code2)
                              \o MotivoEl(<<"i","n","n","e","r">>) \o <<Close("infProt")>>)
    \o <<Close("ret")>>

PBlank ==
    /\ pstep = "idle"
    /\ presp = Resp("none", <<>>, <<>>, <<>>)
    /\ pxml = <<>>
    /\ pres = Res(FALSE, <<>>, <<>>)

Parsear(nome, resultado) ==
    /\ pstep = "resp"
    /\ pstep' = nome
    /\ pres' = resultado
    /\ UNCHANGED <<presp, pxml, kvars, svars, cvars, dvars, bvars, ivars, tvars>>

ParsearStatusServico == Parsear("status", parsear_status_servico(pxml))
ParsearConsulta == Parsear("consulta", parsear_consulta(pxml))
ParsearAutorizacao == Parsear("autorizacao", parsear_autorizacao(pxml))
ParsearEvento == Parsear("evento", parsear_evento(pxml))
ParsearInutilizacao == Parsear("inutilizacao", parsear_resposta_inutilizacao(pxml))
ParsearDistribuicao == Parsear("distribuicao", parsear_resposta_distribuicao(pxml))
ParsearManifestacao == Parsear("manifestacao", parsear_resposta_manifestacao(pxml))

-----------------------------------------------------------------------------
(* Documents handed to the signer                                          *)

\* certificates: the name stands for the key pair and the X.509 data; keyok
\* says whether CertificadoA1::private_key can rebuild the private key; cnpj
\* is info.cnpj, empty when the subject carries none
Certs == { [nome |-> "A", keyok |-> TRUE, cnpj |-> CnpjDigitos],
           [nome |-> "B", keyok |-> FALSE, cnpj |-> <<>>] }
NoCert == [nome |-> "", keyok |-> FALSE, cnpj |-> <<>>]

SignedElements == {"infNFe", "infEvento", "infRec", "infInut"}

RootOf(el) ==
    CASE el = "infNFe" -> "NFe"
      [] el = "infEvento" -> "evento"
      [] el = "infRec" -> "retEnviNFe"
      [] OTHER -> "inutNFe"

RECURSIVE WithWs(_, _)
\* the text with the white space w written between neighbouring tags
WithWs(xml, w) ==
    IF Len(xml) < 2 THEN xml
    ELSE IF IsTag(xml[1]) /\ IsTag(xml[2]) /\ w # <<>>
         THEN <<xml[1], Ws(w)>> \o WithWs(Tail(xml), w)
    ELSE <<xml[1]>> \o WithWs(Tail(xml), w)

WsKinds == {"none", "lf", "crlf"}
WsOf(k) ==
    CASE k = "lf" -> <<"LF", " ", " ">>
      [] k = "crlf" -> <<"CR", "LF">>
      [] OTHER -> <<>>

IdPlaces == {"own", "child", "none"}
Orders == {"normal", "closefirst", "noclose", "supl"}

DocShapes ==
    [decl : BOOLEAN, el : SignedElements, idpos : IdPlaces, ws : WsKinds, order : Orders]

\* a document of the given shape: its root, the element el with two children,
\* the Id on the element, on a child or nowhere; out of order, el's closing
\* tag also stands before it, or is missing, or an infNFeSupl comes first
Doc(p) ==
    LET elopen == IF p.idpos = "own" THEN OpenAttr(p.el, << <<"versao", "4.00">>, <<"Id", <<"I","D","1">> >> >>)
                  ELSE OpenAttr(p.el, << <<"versao", "4.00">> >>)
        child == IF p.idpos = "child" THEN OpenId("det", <<"I","D","2">>) ELSE Open("det")
        body == << elopen, Open("tpAmb"), Text(<<"2">>), Close("tpAmb"),
                   child, Text(<<"a", " ", "b">>), Close("det") >>
        whole == CASE p.order = "normal" -> body \o <<Close(p.el)>>
                   [] p.order = "closefirst" ->
                        <<Close(p.el), Open("x"), Close("x")>> \o body \o <<Close(p.el)>>
                   [] p.order = "noclose" -> body
                   [] OTHER -> <<Open("infNFeSupl"), Text(<<"q">>), Close("infNFeSupl")>>
                               \o body \o <<Close(p.el)>>
        doc == (IF p.decl THEN <<Decl>> ELSE <<>>)
               \o <<OpenAttr(RootOf(p.el), << <<"xmlns", "nfe">> >>)>>
               \o whole \o <<Close(RootOf(p.el))>>
    IN  WithWs(doc, WsOf(p.ws))

Docs == { Doc(p) : p \in DocShapes }

-----------------------------------------------------------------------------
(* Signer operations                                                       *)

MaxAssinaturas == 2

NoSign == [kind |-> "none", err |-> "", xml |-> <<>>]

SBlank ==
    /\ scert = NoCert
    /\ sxml = <<>>
    /\ sin = <<>>
    /\ sel = ""
    /\ sres = NoSign
    /\ snsign = 0

\* one call of an assinar_* operation on the document in hand; a signed
\* document replaces the one in hand
Assinar(el, resultado) ==
    /\ snsign < MaxAssinaturas
    /\ sres.kind \in {"none", "ok"}
    /\ sin' = sxml
    /\ sel' = el
    /\ sres' = resultado
    /\ sxml' = IF resultado.kind = "ok" THEN resultado.xml ELSE sxml
    /\ snsign' = snsign + 1
    /\ UNCHANGED <<scert, kvars, pvars, cvars, dvars, bvars, ivars, tvars>>

AssinarNfe == Assinar("infNFe", assinar_nfe(scert, sxml))
AssinarEvento == Assinar("infEvento", assinar_evento(scert, sxml))
AssinarLote == Assinar("infRec", assinar_lote(scert, sxml))
AssinarInutilizacao == Assinar("infInut", assinar_inutilizacao(scert, sxml))

-----------------------------------------------------------------------------
(* SEFAZ client: web/src/sefaz/webservice.rs                               *)

AmbienteNfe == {"Producao", "Homologacao"}

ServicoNfe ==
    {"Autorizacao", "RetAutorizacao", "ConsultaProtocolo", "Inutilizacao",
     "RecepcaoEvento", "StatusServico"}

WebServiceUrls_new(uf, ambiente) == [uf |-> ToUpper(uf), ambiente |-> ambiente]

get_base_url(urls) ==
    LET is_prod == urls.ambiente = "Producao" IN
    CASE urls.uf = <<"S","P">> ->
           (IF is_prod THEN "https://nfe.fazenda.sp.gov.br/ws"
            ELSE "https://homologacao.nfe.fazenda.sp.gov.br/ws")
      [] urls.uf = <<"R","S">> ->
           (IF is_prod THEN "https://nfe.sefazrs.rs.gov.br/ws"
            ELSE "https://nfe-homologacao.sefazrs.rs.gov.br/ws")
      [] urls.uf = <<"M","G">> ->
           (IF is_prod THEN "https://nfe.fazenda.mg.gov.br/nfe2/services"
            ELSE "https://hnfe.fazenda.mg.gov.br/nfe2/services")
      [] urls.uf = <<"P","R">> ->
           (IF is_prod THEN "https://nfe.sefa.pr.gov.br/nfe/NFeServices"
            ELSE "https://homologacao.nfe.sefa.pr.gov.br/nfe/NFeServices")
      [] OTHER ->
           (IF is_prod THEN "https://nfe.svrs.rs.gov.br/ws"
            ELSE "https://nfe-homologacao.svrs.rs.gov.br/ws")

\* format!("{}/{}", base, service), kept as the two parts
get_url(urls, servico) ==
    << get_base_url(urls),
       CASE servico = "Autorizacao" -> "NFeAutorizacao4"
         [] servico = "RetAutorizacao" -> "NFeRetAutorizacao4"
         [] servico = "ConsultaProtocolo" -> "NFeConsultaProtocolo4"
         [] servico = "Inutilizacao" -> "NFeInutilizacao4"
         [] servico = "RecepcaoEvento" -> "NFeRecepcaoEvento4"
         [] OTHER -> "NFeStatusServico4" >>

\* SefazClient::new, for a certificate the HTTP identity can be built from
SefazClient_new(certificado, uf, ambiente) ==
    [certificado |-> certificado, ambiente |-> ambiente, uf |-> ToUpper(uf)]

\* SefazClient::get_codigo_uf: the code of self.uf, "35" for any other text
get_codigo_uf(uf) ==
    IF \E t \in GerarUFTable : <<t[1], t[2]>> = uf
    THEN LET t == CHOOSE t \in GerarUFTable : <<t[1], t[2]>> = uf IN <<t[3], t[4]>>
    ELSE <<"3","5">>

tp_amb(c) == IF c.ambiente = "Producao" THEN <<"1">> ELSE <<"2">>

\* "<n>{v}</n>"
El(n, v) == <<Open(n)>> \o Str(v) \o <<Close(n)>>

\* the line break and indentation the format strings hold between tags
Ind(n) == Ws(<<"LF">> \o Repeat(" ", n))

\* concatenation of two texts: white space meeting white space is one run
Cat(a, b) ==
    IF a # <<>> /\ b # <<>> /\ a[Len(a)].k = "ws" /\ b[1].k = "ws"
    THEN SubSeq(a, 1, Len(a) - 1) \o <<Ws(a[Len(a)].v \o b[1].v)>> \o Tail(b)
    ELSE a \o b

NsNfe == <<"xmlns", "http://www.portalfiscal.inf.br/nfe">>

\* the SOAP frame the four envelope builders share, around the payload
Envelope(wsdl, payload) ==
    Cat(Cat(<< Decl, Ind(0),
               OpenAttr("soap12:Envelope",
                        << <<"xmlns:soap12", "http://www.w3.org/2003/05/soap-envelope">> >>),
               Ind(2), Open("soap12:Body"),
               Ind(4), OpenAttr("nfeDadosMsg", << <<"xmlns", wsdl>> >>), Ind(6) >>,
            payload),
        << Ind(4), Close("nfeDadosMsg"), Ind(2), Close("soap12:Body"),
           Ind(0), Close("soap12:Envelope") >>)

criar_envelope_status(c) ==
    Envelope("http://www.portalfiscal.inf.br/nfe/wsdl/NFeStatusServico4",
        <<OpenAttr("consStatServ", << <<"versao", "4.00">>, NsNfe >>), Ind(8)>>
        \o El("tpAmb", tp_amb(c)) \o <<Ind(8)>>
        \o El("cUF", get_codigo_uf(c.uf)) \o <<Ind(8)>>
        \o El("xServ", <<"STATUS">>) \o <<Ind(6), Close("consStatServ")>>)

criar_envelope_consulta(c, chave_acesso) ==
    Envelope("http://www.portalfiscal.inf.br/nfe/wsdl/NFeConsultaProtocolo4",
        <<OpenAttr("consSitNFe", << <<"versao", "4.00">>, NsNfe >>), Ind(8)>>
        \o El("tpAmb", tp_amb(c)) \o <<Ind(8)>>
        \o El("xServ", <<"CONSULTAR">>) \o <<Ind(8)>>
        \o El("chNFe", chave_acesso) \o <<Ind(6), Close("consSitNFe")>>)

criar_lote_nfe(lote_id, xml_nfe) ==
    Cat(Cat(<<OpenAttr("enviNFe", << <<"versao", "4.00">>, NsNfe >>), Ind(2)>>
            \o El("idLote", lote_id) \o <<Ind(2)>>
            \o El("indSinc", <<"1">>) \o <<Ind(2)>>,
            xml_nfe),
        <<Ind(0), Close("enviNFe")>>)

criar_envelope_autorizacao(xml_lote) ==
    Envelope("http://www.portalfiscal.inf.br/nfe/wsdl/NFeAutorizacao4", xml_lote)

EvOk(xml) == [kind |-> "ok", err |-> "", xml |-> xml]

\* the frame the two event builders share; the first two characters of the
\* key are sliced out, which panics on a shorter key
Evento(c, chave_acesso, tipo, id_seq, n_seq, dh_evento, det) ==
    IF Len(chave_acesso) < 2 THEN SignPanic
    ELSE EvOk(
        << OpenAttr("evento", << <<"versao", "1.00">>, NsNfe >>), Ind(2),
           OpenId("infEvento", <<"I","D">> \o tipo \o chave_acesso \o id_seq), Ind(4) >>
        \o El("cOrgao", SubSeq(chave_acesso, 1, 2)) \o <<Ind(4)>>
        \o El("tpAmb", tp_amb(c)) \o <<Ind(4)>>
        \o El("CNPJ", c.certificado.cnpj) \o <<Ind(4)>>
        \o El("chNFe", chave_acesso) \o <<Ind(4)>>
        \o El("dhEvento", dh_evento) \o <<Ind(4)>>
        \o El("tpEvento", tipo) \o <<Ind(4)>>
        \o El("nSeqEvento", n_seq) \o <<Ind(4)>>
        \o El("verEvento", <<"1",".","0","0">>) \o <<Ind(4)>>
        \o <<OpenAttr("detEvento", << <<"versao", "1.00">> >>), Ind(6)>>
        \o det
        \o <<Ind(4), Close("detEvento"), Ind(2), Close("infEvento"), Ind(0), Close("evento")>>)

criar_evento_cancelamento(c, chave_acesso, protocolo, justificativa, dh_evento) ==
    Evento(c, chave_acesso, <<"1","1","0","1","1","1">>, <<"0","1">>, <<"1">>, dh_evento,
           El("descEvento", <<"Cancelamento">>) \o <<Ind(6)>>
           \o El("nProt", protocolo) \o <<Ind(6)>>
           \o El("xJust", justificativa))

criar_evento_cce(c, chave_acesso, sequencia, correcao, dh_evento) ==
    Evento(c, chave_acesso, <<"1","1","0","1","1","0">>, FmtZero(sequencia, 2),
           Dec(sequencia), dh_evento,
           El("descEvento", <<"Carta de Correcao">>) \o <<Ind(6)>>
           \o El("xCorrecao", correcao) \o <<Ind(6)>>
           \o El("xCondUso", <<"A Carta de Correcao e disciplinada ...">>))

criar_envelope_evento(xml_evento) ==
    Envelope("http://www.portalfiscal.inf.br/nfe/wsdl/NFeRecepcaoEvento4",
        Cat(Cat(<<OpenAttr("envEvento", << <<"versao", "1.00">>, NsNfe >>), Ind(8)>>
                \o El("idLote", <<"1">>) \o <<Ind(8)>>,
                xml_evento),
            <<Ind(6), Close("envEvento")>>))

\* what an operation does up to its request: the request it sends, or the
\* error, panic or value it ends with before sending any
NoReq == [url |-> <<>>, action |-> "", body |-> <<>>]
NoVal == [ok |-> FALSE, sucesso |-> FALSE, codigo_status |-> <<>>, motivo |-> <<>>]

Send(url, action, envelope) ==
    [kind |-> "send", prefix |-> "", err |-> "", val |-> NoVal,
     req |-> [url |-> url, action |-> action, body |-> envelope]]

Falha(r, prefix) ==
    [kind |-> r.kind, prefix |-> prefix, err |-> r.err, val |-> NoVal, req |-> NoReq]

Valor(v) == [kind |-> "value", prefix |-> "", err |-> "", val |-> v, req |-> NoReq]

UrlOf(c, servico) == get_url(WebServiceUrls_new(c.uf, c.ambiente), servico)

\* SefazClient::status_servico up to the request
status_servico(c) ==
    Send(UrlOf(c, "StatusServico"), "nfeStatusServicoNF", criar_envelope_status(c))

\* SefazClient::consultar_nfe up to the request
consultar_nfe(c, chave_acesso) ==
    Send(UrlOf(c, "ConsultaProtocolo"), "nfeConsultaNF",
         criar_envelope_consulta(c, chave_acesso))

\* SefazClient::autorizar_nfe up to the request
autorizar_nfe(c, xml_nfe, lote_id) ==
    LET xml_assinado == assinar_nfe(c.certificado, xml_nfe)
        xml_lote == criar_lote_nfe(lote_id, xml_assinado.xml)
    IN  IF xml_assinado.kind # "ok" THEN Falha(xml_assinado, "")
        ELSE Send(UrlOf(c, "Autorizacao"), "nfeAutorizacaoLote",
                  criar_envelope_autorizacao(xml_lote))

\* an event path that wraps and sends the event even when signing it failed
EnviarEvento_sem_parar(c, xml_evento) ==
    LET xml_assinado == assinar_evento(c.certificado, xml_evento.xml)
    IN  IF xml_evento.kind # "ok" THEN Falha(xml_evento, "")
        ELSE Send(UrlOf(c, "RecepcaoEvento"), "nfeRecepcaoEvento",
                  criar_envelope_evento(IF xml_assinado.kind = "ok" THEN xml_assinado.xml
                                        ELSE xml_evento.xml))

\* the part cancelar_nfe and carta_correcao share after building the event
EnviarEvento(c, xml_evento) ==
    LET xml_assinado == assinar_evento(c.certificado, xml_evento.xml)
    IN  IF xml_evento.kind # "ok" THEN Falha(xml_evento, "")
        ELSE IF xml_assinado.kind # "ok" THEN Falha(xml_assinado, "")
        ELSE Send(UrlOf(c, "RecepcaoEvento"), "nfeRecepcaoEvento",
                  criar_envelope_evento(xml_assinado.xml))

\* SefazClient::cancelar_nfe up to the request
cancelar_nfe(c, chave_acesso, protocolo, justificativa, dh_evento) ==
    EnviarEvento(c, criar_evento_cancelamento(c, chave_acesso, protocolo, justificativa,
                                              dh_evento))

\* SefazClient::carta_correcao up to the request
carta_correcao(c, chave_acesso, sequencia, correcao, dh_evento) ==
    EnviarEvento(c, criar_evento_cce(c, chave_acesso, sequencia, correcao, dh_evento))

\* reqwest StatusCode::is_success
is_success(status) == status \in 200..299

TransportErr(msg) == [ok |-> FALSE, err |-> msg, text |-> <<>>]

\* an enviar_soap that hands over the body whatever the HTTP status
enviar_soap_sem_status(r) ==
    IF r.kind = "conn" THEN TransportErr("Erro na requisicao SOAP")
    ELSE IF ~r.bodyok THEN TransportErr("Erro ao ler resposta")
    ELSE [ok |-> TRUE, err |-> "", text |-> r.text]

\* SefazClient::enviar_soap from the transport's answer r on: the Result
enviar_soap(r) ==
    IF r.kind = "conn" THEN TransportErr("Erro na requisicao SOAP")
    ELSE IF ~is_success(r.status) THEN TransportErr("SEFAZ retornou erro HTTP")
    ELSE IF ~r.bodyok THEN TransportErr("Erro ao ler resposta")
    ELSE [ok |-> TRUE, err |-> "", text |-> r.text]

-----------------------------------------------------------------------------
(* GraphQL emitir_nfe: web/src/graphql/resolvers.rs                        *)

\* get_codigo_municipio: format!("{}0000", municipio.len())
get_codigo_municipio(municipio) == Dec(Len(municipio)) \o <<"0","0","0","0">>

\* format!("{:.4}") and format!("{:.2}") of a whole amount
Fmt4(n) == Dec(n) \o <<".","0","0","0","0">>
Fmt2(n) == Dec(n) \o <<".","0","0">>

RECURSIVE Els(_)
\* the elements "<n>{v}</n>" of the <<n, v>> pairs, in order
Els(pairs) ==
    IF pairs = <<>> THEN <<>> ELSE El(pairs[1][1], pairs[1][2]) \o Els(Tail(pairs))

RECURSIVE total_produtos(_)
total_produtos(itens) ==
    IF itens = <<>> THEN 0
    ELSE itens[1].quantidade * itens[1].valor_unitario + total_produtos(Tail(itens))

Zero2 == <<"0",".","0","0">>

RECURSIVE Dets(_, _)
\* the det element of every item from the i-th on
Dets(itens, i) ==
    IF i > Len(itens) THEN <<>>
    ELSE LET item == itens[i] IN
         <<OpenAttr("det", << <<"nItem", Dec(i)>> >>), Open("prod")>>
         \o Els(<< <<"cProd", item.codigo>>, <<"cEAN", <<"SEM GTIN">> >>,
                   <<"xProd", item.descricao>>, <<"NCM", item.ncm>>, <<"CFOP", item.cfop>>,
                   <<"uCom", item.unidade>>, <<"qCom", Fmt4(item.quantidade)>>,
                   <<"vUnCom", Fmt4(item.valor_unitario)>>,
                   <<"vProd", Fmt2(item.quantidade * item.valor_unitario)>>,
                   <<"cEANTrib", <<"SEM GTIN">> >>, <<"uTrib", item.unidade>>,
                   <<"qTrib", Fmt4(item.quantidade)>>,
                   <<"vUnTrib", Fmt4(item.valor_unitario)>>, <<"indTot", <<"1">> >> >>)
         \o <<Close("prod"), Open("imposto"), Open("ICMS"), Open("ICMSSN102")>>
         \o Els(<< <<"orig", <<"0">> >>, <<"CSOSN", <<"1","0","2">> >> >>)
         \o <<Close("ICMSSN102"), Close("ICMS"), Open("PIS"), Open("PISOutr")>>
         \o Els(<< <<"CST", <<"9","9">> >>, <<"vBC", Zero2>>, <<"pPIS", Zero2>>,
                   <<"vPIS", Zero2>> >>)
         \o <<Close("PISOutr"), Close("PIS"), Open("COFINS"), Open("COFINSOutr")>>
         \o Els(<< <<"CST", <<"9","9">> >>, <<"vBC", Zero2>>, <<"pCOFINS", Zero2>>,
                   <<"vCOFINS", Zero2>> >>)
         \o <<Close("COFINSOutr"), Close("COFINS"), Close("imposto"), Close("det")>>
         \o Dets(itens, i + 1)

\* gerar_xml_nfe for an input without fantasy name, state registration or
\* recipient; agora is the clock reading in the three formats the text uses
gerar_xml_nfe(input, agora) ==
    << Decl, OpenAttr("NFe", <<NsNfe>>),
       OpenAttr("infNFe", << <<"versao", "4.00">>, <<"Id", <<"N","F","e">> \o agora.id>> >>),
       Open("ide") >>
    \o Els(<< <<"cUF", get_codigo_uf(input.emitente.endereco.uf)>>,
              <<"cNF", agora.cnf>>,
              <<"natOp", <<"Venda de mercadoria">> >>,
              <<"mod", <<"5","5">> >>,
              <<"serie", Dec(input.serie)>>,
              <<"nNF", Dec(input.numero)>>,
              <<"dhEmi", agora.dh>>,
              <<"tpNF", <<"1">> >>, <<"idDest", <<"1">> >>,
              <<"cMunFG", get_codigo_municipio(input.emitente.endereco.municipio)>>,
              <<"tpImp", <<"1">> >>, <<"tpEmis", <<"1">> >>, <<"tpAmb", <<"2">> >>,
              <<"finNFe", <<"1">> >>, <<"indFinal", <<"1">> >>, <<"indPres", <<"1">> >>,
              <<"procEmi", <<"0">> >>, <<"verProc", <<"NfeWeb1.0">> >> >>)
    \o <<Close("ide"), Open("emit")>>
    \o Els(<< <<"CNPJ", input.emitente.cnpj>>, <<"xNome", input.emitente.razao_social>> >>)
    \o <<Open("enderEmit")>>
    \o Els(<< <<"xLgr", input.emitente.endereco.logradouro>>,
              <<"nro", input.emitente.endereco.numero>>,
              <<"xBairro", input.emitente.endereco.bairro>>,
              <<"cMun", get_codigo_municipio(input.emitente.endereco.municipio)>>,
              <<"xMun", input.emitente.endereco.municipio>>,
              <<"UF", input.emitente.endereco.uf>>,
              <<"CEP", input.emitente.endereco.cep>>,
              <<"cPais", <<"1","0","5","8">> >>, <<"xPais", <<"Brasil">> >> >>)
    \o <<Close("enderEmit")>> \o El("CRT", <<"1">>) \o <<Close("emit")>>
    \o Dets(input.itens, 1)
    \o <<Open("total"), Open("ICMSTot")>>
    \o Els(<< <<"vBC", Zero2>>, <<"vICMS", Zero2>>, <<"vICMSDeson", Zero2>>,
              <<"vFCP", Zero2>>, <<"vBCST", Zero2>>, <<"vST", Zero2>>, <<"vFCPST", Zero2>>,
              <<"vFCPSTRet", Zero2>>, <<"vProd", Fmt2(total_produtos(input.itens))>>,
              <<"vFrete", Zero2>>, <<"vSeg", Zero2>>, <<"vDesc", Zero2>>, <<"vII", Zero2>>,
              <<"vIPI", Zero2>>, <<"vIPIDevol", Zero2>>, <<"vPIS", Zero2>>,
              <<"vCOFINS", Zero2>>, <<"vOutro", Zero2>>,
              <<"vNF", Fmt2(total_produtos(input.itens))>> >>)
    \o <<Close("ICMSTot"), Close("total"), Open("transp")>>
    \o El("modFrete", <<"9">>)
    \o <<Close("transp"), Open("pag"), Open("detPag")>>
    \o Els(<< <<"tPag", <<"0","1">> >>, <<"vPag", Fmt2(total_produtos(input.itens))>> >>)
    \o <<Close("detPag"), Close("pag"), Close("infNFe"), Close("NFe")>>

SemCertificado ==
    Res(FALSE, Str(<<"9","9","9">>), Str(<<"Certificado digital nao configurado">>))

\* MutationRoot::emitir_nfe up to the request of the autorizar_nfe it calls
emitir_nfe(st, input, agora, lote_id) ==
    IF input.itens = <<>>
    THEN Falha([kind |-> "err", err |-> "NF-e deve ter pelo menos um item"], "")
    ELSE IF st.certificado.some /\ st.sefaz_client.some
    THEN LET xml_nfe == gerar_xml_nfe(input, agora)
             xml_assinado == assinar_nfe(st.certificado.val, xml_nfe)
             envio == autorizar_nfe(st.sefaz_client.val, xml_assinado.xml, lote_id)
         IN  IF xml_assinado.kind = "panic" THEN Falha(xml_assinado, "")
             ELSE IF xml_assinado.kind # "ok" THEN Falha(xml_assinado, "Erro ao assinar: ")
             ELSE IF envio.kind = "err" THEN Falha(envio, "Erro SEFAZ: ")
             ELSE envio
    ELSE Valor(SemCertificado)

-----------------------------------------------------------------------------
(* Calls on the client                                                     *)

\* a key that validar_chave_acesso accepts, and texts that it rejects
ChaveValida ==
    gerar_chave_acesso(<<"S","P">>, AnoMesOk, CnpjDigitos, 55, 1, 1, 1, 12345678).chave

ChaveDvTrocado ==
    [ChaveValida EXCEPT ![44] = IF ChaveValida[44] = "0" THEN "1" ELSE "0"]

Chaves == { ChaveValida, ChaveDvTrocado, <<"3">>, <<"a","b","c">> }

Justificativas == { Repeat("x", 15), Repeat("x", 14), <<>> }

Sequencias == {1, 12}

Protocolos == { <<"1","3","5","2","4","0","0","0","0","0","0","0","0","0","1">> }

\* readings of the clock, as the event timestamp text
Instantes == { <<"2024-06-01T10:00:00-03:00">>, <<"2024-06-01T10:00:01-03:00">> }

\* readings of the clock, in the three formats gerar_xml_nfe writes
Agoras ==
    { [id |-> <<"20240601100000000000000">>, cnf |-> <<"17236800">>,
       dh |-> <<"2024-06-01T10:00:00-03:00">>],
      [id |-> <<"20240601100001000000000">>, cnf |-> <<"17236801">>,
       dh |-> <<"2024-06-01T10:00:01-03:00">>] }

\* the first 15 characters of a fresh uuid without dashes
LoteIds == { <<"0123456789abcde">>, <<"fedcba987654321">> }

\* documents handed to autorizar_nfe directly
DocsAutorizar ==
    { Doc(sh) : sh \in [decl : BOOLEAN, el : {"infNFe"}, idpos : {"own", "none"},
                        ws : {"none", "lf"}, order : {"normal", "closefirst"}] }

Item(codigo, quantidade, valor_unitario) ==
    [codigo |-> codigo, descricao |-> <<"Produto">>, ncm |-> <<"84713012">>,
     cfop |-> <<"5102">>, unidade |-> <<"UN">>, quantidade |-> quantidade,
     valor_unitario |-> valor_unitario]

NfeInputs ==
    { [numero |-> 1, serie |-> 1,
       emitente |-> [cnpj |-> CnpjDigitos, razao_social |-> <<"Empresa">>,
                     endereco |-> [logradouro |-> <<"Rua A">>, numero |-> <<"1","0">>,
                                   bairro |-> <<"Centro">>,
                                   municipio |-> <<"S","a","o"," ","P","a","u","l","o">>,
                                   uf |-> uf, cep |-> <<"01001000">>]],
       itens |-> itens] :
        uf \in { <<"S","P">> },
        itens \in { <<>>, <<Item(<<"P1">>, 2, 10)>>,
                    <<Item(<<"P1">>, 2, 10), Item(<<"P2">>, 1, 5)>> } }

Clients ==
    { SefazClient_new(cert, uf, amb) :
        cert \in Certs, uf \in { <<"s","p">>, <<"M","G">>, <<"X","X">> }, amb \in AmbienteNfe }

\* what the transport can make of a request: no connection, or a response
\* with a status and a body that can or cannot be read
CodigosRede == { <<"1","0","0">>, <<"1","3","5">>, <<"5","3","9">> }

TextosRede ==
    { RespXml(Resp("cm", c, MotivoSimples, <<>>)) : c \in CodigosRede }
    \cup { RespXml(Resp("none", <<>>, <<>>, <<>>)) }

NetOutcomes ==
    { [kind |-> "conn", status |-> 0, bodyok |-> FALSE, text |-> <<>>] }
    \cup { [kind |-> "resp", status |-> st, bodyok |-> FALSE, text |-> <<>>] :
             st \in {200, 404, 500} }
    \cup { [kind |-> "resp", status |-> st, bodyok |-> TRUE, text |-> t] :
             st \in {200, 404, 500}, t \in TextosRede }

NoCall ==
    [op |-> "", chave |-> <<>>, texto |-> <<>>, xml |-> <<>>, input |-> <<>>]
Call(op, chave, texto, xml, input) ==
    [op |-> op, chave |-> chave, texto |-> texto, xml |-> xml, input |-> input]

NoNet == [kind |-> "none", status |-> 0, bodyok |-> FALSE, text |-> <<>>]
NoOut == [kind |-> "none", prefix |-> "", err |-> "", val |-> NoVal]

CIdle ==
    /\ cpc = "idle"
    /\ ccall = NoCall
    /\ creqs = <<>>
    /\ cnet = NoNet
    /\ cparsed = <<>>
    /\ cout = NoOut

NoClient == [certificado |-> NoCert, ambiente |-> "Homologacao", uf |-> <<>>]

CBlank ==
    /\ client = NoClient
    /\ gstate = [certificado |-> None, sefaz_client |-> None]
    /\ CIdle

\* the operation runs up to its request, which goes out, or to its end
Chamar(call, prep) ==
    /\ cpc = "idle"
    /\ ccall' = call
    /\ IF prep.kind = "send"
       THEN /\ creqs' = Append(creqs, prep.req)
            /\ cpc' = "awaiting"
            /\ cout' = cout
       ELSE /\ creqs' = creqs
            /\ cpc' = "done"
            /\ cout' = [kind |-> IF prep.kind = "value" THEN "ok" ELSE prep.kind,
                        prefix |-> prep.prefix, err |-> prep.err, val |-> prep.val]
    /\ UNCHANGED <<client, gstate, cnet, cparsed, kvars, pvars, svars, dvars, bvars, ivars, tvars>>

ChamarStatusServico ==
    Chamar(Call("status_servico", <<>>, <<>>, <<>>, <<>>), status_servico(client))

ChamarConsultarNfe ==
    \E chave \in Chaves :
        Chamar(Call("consultar_nfe", chave, <<>>, <<>>, <<>>), consultar_nfe(client, chave))

ChamarAutorizarNfe ==
    \E xml \in DocsAutorizar, lote \in LoteIds :
        Chamar(Call("autorizar_nfe", <<>>, <<>>, xml, <<>>), autorizar_nfe(client, xml, lote))

ChamarCancelarNfe ==
    \E chave \in Chaves, prot \in Protocolos, just \in Justificativas, dh \in Instantes :
        Chamar(Call("cancelar_nfe", chave, just, <<>>, <<>>),
               cancelar_nfe(client, chave, prot, just, dh))

ChamarCartaCorrecao ==
    \E chave \in Chaves, seq \in Sequencias, corr \in Justificativas, dh \in Instantes :
        Chamar(Call("carta_correcao", chave, corr, <<>>, <<>>),
               carta_correcao(client, chave, seq, corr, dh))

EmitirNfe ==
    \E input \in NfeInputs, agora \in Agoras, lote \in LoteIds :
        Chamar(Call("emitir_nfe", <<>>, <<>>, <<>>, input),
               emitir_nfe(gstate, input, agora, lote))

\* the parser each operation hands the response text to
ParserOf(op, text) ==
    CASE op = "status_servico" -> parsear_status_servico(text)
      [] op = "consultar_nfe" -> parsear_consulta(text)
      [] op \in {"autorizar_nfe", "emitir_nfe"} -> parsear_autorizacao(text)
      [] OTHER -> parsear_evento(text)

\* the transport answers and the operation runs from enviar_soap's await to
\* its end: an error, or the value the parser makes of the response text
Responder ==
    /\ cpc = "awaiting"
    /\ \E r \in NetOutcomes :
         LET resp == enviar_soap(r) IN
         /\ cnet' = r
         /\ IF resp.ok
            THEN /\ cparsed' = Append(cparsed, resp.text)
                 /\ cout' = [kind |-> "ok", prefix |-> "", err |-> "",
                             val |-> ParserOf(ccall.op, resp.text)]
            ELSE /\ cparsed' = cparsed
                 /\ cout' = [kind |-> "err",
                             prefix |-> IF ccall.op = "emitir_nfe" THEN "Erro SEFAZ: " ELSE "",
                             err |-> resp.err, val |-> NoVal]
    /\ cpc' = "done"
    /\ UNCHANGED <<client, gstate, ccall, creqs, kvars, pvars, svars, dvars, bvars, ivars, tvars>>

\* the caller has the outcome; the client is free for the next call
Retornar ==
    /\ cpc = "done"
    /\ cpc' = "idle"
    /\ ccall' = NoCall
    /\ creqs' = <<>>
    /\ cnet' = NoNet
    /\ cparsed' = <<>>
    /\ cout' = NoOut
    /\ UNCHANGED <<client, gstate, kvars, pvars, svars, dvars, bvars, ivars, tvars>>

-----------------------------------------------------------------------------
(* Verifying signed documents; signing a document one character apart      *)

VerOk(b) == [kind |-> "ok", val |-> b, err |-> "", n |-> 0]
VerErr(msg) == [kind |-> "err", val |-> FALSE, err |-> msg, n |-> 0]
VerPanic == [kind |-> "panic", val |-> FALSE, err |-> "slice index starts after its end", n |-> 0]

\* xml.contains("<element")
ContainsTag(xml, element) == \E i \in 1..Len(xml) : StartsTag(xml[i], element)

\* validar_estrutura_assinatura
validar_estrutura_assinatura(xml) ==
    IF ~ContainsTag(xml, "Signature") THEN VerErr("XML nao possui assinatura")
    ELSE IF ~ContainsTag(xml, "SignedInfo") THEN VerErr("Elemento SignedInfo nao encontrado")
    ELSE IF ~ContainsTag(xml, "SignatureValue") THEN VerErr("Elemento SignatureValue nao encontrado")
    ELSE IF ~ContainsTag(xml, "DigestValue") THEN VerErr("Elemento DigestValue nao encontrado")
    ELSE IF ~ContainsTag(xml, "X509Certificate") THEN VerErr("Elemento X509Certificate nao encontrado")
    ELSE VerOk(TRUE)

\* the text between the first "<DigestValue>" and the first "</DigestValue>"
\* after it; ok is FALSE when either is missing
stored_digest(xml) ==
    LET ds == First({ i \in 1..Len(xml) : xml[i] = Open("DigestValue") })
        de == First({ i \in (ds + 1)..Len(xml) : xml[i] = Close("DigestValue") })
    IN  IF ds = 0 THEN [ok |-> FALSE, err |-> "DigestValue nao encontrado", val |-> <<>>]
        ELSE IF de = 0 THEN [ok |-> FALSE, err |-> "Fim do DigestValue nao encontrado", val |-> <<>>]
        ELSE [ok |-> TRUE, err |-> "", val |-> SubSeq(xml, ds + 1, de - 1)]

\* verificar_digest: the element is cut out as find_element cuts it, and
\* brought to the form hashed without taking a declaration off
verificar_digest(xml, element_name) ==
    LET stored == stored_digest(xml)
        f == find_element(xml, element_name)
        elem_content == SubSeq(xml, f.start, f.end)
        lf == [i \in 1..Len(elem_content) |-> NormalizeTok(elem_content[i])]
        canonical == DropInnerWs(lf)
    IN  IF ~stored.ok THEN VerErr(stored.err)
        ELSE IF ~f.ok THEN VerErr(f.err)
        ELSE IF f.start > f.end + 1 THEN VerPanic
        ELSE VerOk(stored.val = <<DigestB64(canonical)>>)

\* the value of the URI attribute of the first Reference of the text
reference_uri(xml) ==
    LET r == First({ i \in 1..Len(xml) : xml[i].k = "open" /\ xml[i].n = "Reference" })
    IN  xml[r].attrs[1][2]

\* the start tag of the element named element itself, 0 when there is none
OwnStart(xml, element) ==
    First({ i \in 1..Len(xml) : xml[i].k \in {"open", "empty"} /\ xml[i].n = element })

DigestChars == {"a", " ", "LF", "CR"}

\* a run of characters between tags is white space when all of it is
Retok(v) == IF \A j \in 1..Len(v) : v[j] \in Blank THEN Ws(v) ELSE Text(v)

\* the document with character j of the character data at token i replaced by c
TrocarCaractere(xml, i, j, c) ==
    [xml EXCEPT ![i] = Retok([xml[i].v EXCEPT ![j] = c])]

\* the characters of character data inside the element that assinar_* signs
Posicoes(xml, element) ==
    LET f == find_element(xml, element)
        toks == { i \in f.start..f.end : xml[i].k \in {"text", "ws"} }
    IN  UNION { { <<i, j>> : j \in 1..Len(xml[i].v) } : i \in toks }

\* documents with a carriage return in character data and, some of them, an
\* XML declaration written inside the element
DocEmbutido(el, ws, decl) ==
    WithWs(<< OpenAttr(RootOf(el), << <<"xmlns", "nfe">> >>),
              OpenAttr(el, << <<"versao", "4.00">>, <<"Id", <<"I","D","1">> >> >>),
              Open("obs"), Text(<<"a", "CR", "b">>), Close("obs") >>
           \o (IF decl THEN <<Decl>> ELSE <<>>)
           \o << Open("tpAmb"), Text(<<"2">>), Close("tpAmb"),
                 Close(el), Close(RootOf(el)) >>,
           WsOf(ws))

\* a signed document with the tags of the Signature element itself taken out
SemEnvelope(xml) ==
    LET Fica(t) == t.n # "Signature"
    IN  SelectSeq(xml, Fica)

DocsSemEnvelope ==
    { SemEnvelope(assinar_elemento(CHOOSE c \in Certs : c.keyok,
                                   DocEmbutido(el, "none", FALSE), el).xml) :
        el \in SignedElements }

DigestDocs ==
    Docs
    \cup { DocEmbutido(el, ws, decl) : el \in SignedElements, ws \in WsKinds, decl \in BOOLEAN }
    \cup DocsSemEnvelope

\* validar_estrutura_assinatura on the document in hand
ValidarEstrutura ==
    /\ dres = NoSign
    /\ vest.kind = "none" \/ vest.n # snsign
    /\ vest' = [validar_estrutura_assinatura(sxml) EXCEPT !.n = snsign]
    /\ UNCHANGED <<dalt, dres, vdig, kvars, pvars, svars, cvars, bvars, ivars, tvars>>

\* verificar_digest on the document in hand, once its structure was looked
\* at, for the element last signed
VerificarDigest ==
    /\ dres = NoSign
    /\ vest.kind # "none" /\ vest.n = snsign
    /\ vdig.kind = "none" \/ vdig.n # snsign
    /\ \E el \in SignedElements :
        /\ sel \in {"", el}
        /\ vdig' = [verificar_digest(sxml, el) EXCEPT !.n = snsign]
    /\ UNCHANGED <<dalt, dres, vest, kvars, pvars, svars, cvars, bvars, ivars, tvars>>

\* the assinar_* call just made and verified, made again on a document that
\* differs from its input in one character inside the element
AssinarAlterado ==
    /\ snsign = 1
    /\ sres.kind = "ok"
    /\ vdig.kind # "none" /\ vdig.n = snsign
    /\ dres = NoSign
    /\ \E p \in Posicoes(sin, sel), c \in DigestChars :
        /\ c # sin[p[1]].v[p[2]]
        /\ dalt' = TrocarCaractere(sin, p[1], p[2], c)
        /\ dres' = assinar_elemento(scert, dalt', sel)
    /\ UNCHANGED <<vest, vdig, kvars, pvars, svars, cvars, bvars, ivars, tvars>>

-----------------------------------------------------------------------------
(* Certificate bundles and the clock                                        *)

\* time is counted in quarters of a day
Dia == 4
MaxNow == 24

\* chrono::Duration::num_days: whole days, the fraction dropped towards zero
num_days(d) == IF d >= 0 THEN d \div Dia ELSE -((-d) \div Dia)

\* what a container can be: too short, not starting with 0x30, not PKCS12,
\* locked with another password (certificates or keys), without a
\* certificate, without a key, with a certificate that is not X509, or whole;
\* identity tells whether reqwest builds an HTTP identity from it
PfxFormas ==
    {"curto", "magic", "pkcs12", "senha_cert", "senha_chave", "sem_cert", "sem_chave",
     "x509", "ok"}

Janelas == { <<4, 6>>, <<4, 16>> }

Pfxs ==
    { [forma |-> f, not_before |-> j[1], not_after |-> j[2], identity |-> i] :
        f \in PfxFormas, j \in Janelas, i \in BOOLEAN }

CertErr(msg) == [kind |-> "err", err |-> msg]

\* the dias_para_expirar and valido of CertificadoA1::extract_cert_info, for
\* a certificate with the given validity read when the clock shows agora
extract_cert_info(cert, agora) ==
    [not_before |-> cert.not_before,
     not_after |-> cert.not_after,
     dias_para_expirar |-> num_days(cert.not_after - agora),
     valido |-> (agora >= cert.not_before /\ agora <= cert.not_after)]

\* CertificadoA1::from_bytes when the clock shows agora
from_bytes(pfx_data, agora) ==
    CASE pfx_data.forma = "curto" -> CertErr("Arquivo de certificado invalido ou muito pequeno")
      [] pfx_data.forma = "magic" -> CertErr("Arquivo nao parece ser um certificado PKCS12 valido")
      [] pfx_data.forma = "pkcs12" -> CertErr("Erro ao parsear PKCS12")
      [] pfx_data.forma = "senha_cert" -> CertErr("Erro ao extrair certificado (senha incorreta?)")
      [] pfx_data.forma = "senha_chave" -> CertErr("Erro ao extrair chave privada")
      [] pfx_data.forma = "sem_cert" -> CertErr("Certificado nao encontrado no arquivo PFX")
      [] pfx_data.forma = "sem_chave" -> CertErr("Chave privada nao encontrada no arquivo PFX")
      [] pfx_data.forma = "x509" -> CertErr("Erro ao parsear certificado X509")
      [] OTHER -> [kind |-> "ok", err |-> "",
                   pfx_data |-> pfx_data,
                   info |-> extract_cert_info(pfx_data, agora)]

\* CertificadoA1::is_valid
is_valid(cert) == cert.info.valido /\ cert.info.dias_para_expirar > 0

\* SefazClient::new on a loaded bundle: it fails when no HTTP identity can
\* be built from the container, and looks at nothing else
SefazClient_new_bundle(certificado, uf, ambiente) ==
    IF ~certificado.pfx_data.identity THEN CertErr("Erro ao criar identidade")
    ELSE [kind |-> "ok", err |-> "",
          client |-> [certificado |-> certificado, ambiente |-> ambiente, uf |-> ToUpper(uf)]]

\* a carregar_certificado without the validity check of the loaded bundle
carregar_certificado_sem_validade(pfx_data, agora, uf, ambiente) ==
    LET cert == from_bytes(pfx_data, agora)
        amb == IF ambiente \in {"homologacao", "2"} THEN "Homologacao" ELSE "Producao"
        sefaz_client == SefazClient_new_bundle(cert, uf, amb)
    IN  IF pfx_data.forma = "base64" THEN CertErr("Erro ao decodificar certificado")
        ELSE IF cert.kind = "err" THEN cert
        ELSE IF sefaz_client.kind = "err"
             THEN CertErr("Erro ao criar cliente SEFAZ: " \o sefaz_client.err)
        ELSE [kind |-> "ok", err |-> "", cert |-> cert, client |-> sefaz_client.client]

\* MutationRoot::carregar_certificado up to the update of the state
carregar_certificado(pfx_data, agora, uf, ambiente) ==
    LET cert == from_bytes(pfx_data, agora)
        amb == IF ambiente \in {"homologacao", "2"} THEN "Homologacao" ELSE "Producao"
        sefaz_client == SefazClient_new_bundle(cert, uf, amb)
    IN  IF pfx_data.forma = "base64" THEN CertErr("Erro ao decodificar certificado")
        ELSE IF cert.kind = "err" THEN cert
        ELSE IF ~is_valid(cert) THEN CertErr("Certificado expirado ou invalido")
        ELSE IF sefaz_client.kind = "err"
             THEN CertErr("Erro ao criar cliente SEFAZ: " \o sefaz_client.err)
        ELSE [kind |-> "ok", err |-> "", cert |-> cert, client |-> sefaz_client.client]

\* the clock moves on
Tick ==
    /\ now < MaxNow
    /\ now' = now + 1
    /\ UNCHANGED <<pfx, bundle, bcli, kvars, pvars, svars, cvars, dvars, ivars, tvars>>

\* CertificadoA1::from_bytes on the container in hand; em is the time of the call
FromBytes ==
    /\ bundle.kind = "none"
    /\ bcli.kind = "none"
    /\ bundle' = [res |-> from_bytes(pfx, now), em |-> now, kind |-> "loaded"]
    /\ UNCHANGED <<now, pfx, bcli, kvars, pvars, svars, cvars, dvars, ivars, tvars>>

\* SefazClient::new on the bundle from_bytes returned
SefazClientNew ==
    /\ bundle.kind = "loaded"
    /\ bundle.res.kind = "ok"
    /\ bcli.kind = "none"
    /\ \E amb \in AmbienteNfe :
        bcli' = [res |-> SefazClient_new_bundle(bundle.res, <<"s","p">>, amb),
                 por |-> "new", carregado |-> bundle.em, kind |-> "built"]
    /\ UNCHANGED <<now, pfx, bundle, kvars, pvars, svars, cvars, dvars, ivars, tvars>>

\* MutationRoot::carregar_certificado on the container in hand
CarregarCertificado ==
    /\ bundle.kind = "none"
    /\ bcli.kind = "none"
    /\ \E ambiente \in {"", "homologacao"} :
        LET r == carregar_certificado(pfx, now, <<"s","p">>, ambiente) IN
        /\ bcli' = [res |-> r, por |-> "carregar_certificado", carregado |-> now,
                    kind |-> "built"]
        /\ gstate' = IF r.kind = "ok"
                     THEN [certificado |-> Some(r.cert), sefaz_client |-> Some(r.client)]
                     ELSE gstate
    /\ UNCHANGED <<now, pfx, bundle, client, cpc, ccall, creqs, cnet, cparsed, cout,
                   kvars, pvars, svars, dvars, ivars, tvars>>

-----------------------------------------------------------------------------
(* Range invalidation and recipient manifestation requests                  *)

\* characters UTF-8 writes in two bytes; every other character of the model
\* is ASCII, one byte
DoisBytes == {"c-cedilha", "a-til"}

\* String::len(): the number of bytes of the UTF-8 text
str_len(s) == Len(s) + Cardinality({ i \in 1..Len(s) : s[i] \in DoisBytes })

ReqOk == [kind |-> "ok", erros |-> <<>>]
ReqErr(erros) == [kind |-> "err", erros |-> erros]

\* Result<(), Vec<String>> of the messages whose conditions hold, in order
Coletar(checks) ==
    LET Falhou(c) == c[1]
        erros == SelectSeq(checks, Falhou)
    IN  IF erros = <<>> THEN ReqOk ELSE ReqErr([i \in 1..Len(erros) |-> erros[i][2]])

\* DadosInutilizacao::validar
DadosInutilizacao_validar(d) ==
    Coletar(<< <<d.ano < 2006 \/ d.ano > 2099, "Ano invalido">>,
               <<str_len(d.cnpj) # 14 \/ ~AllDigits(d.cnpj), "CNPJ invalido">>,
               <<d.modelo # 55 /\ d.modelo # 65, "Modelo invalido">>,
               <<d.serie > 999, "Serie invalida">>,
               <<d.numero_inicial > d.numero_final, "Numero inicial maior que o final">>,
               <<d.numero_inicial = 0, "Numero inicial nao pode ser zero">>,
               <<str_len(d.justificativa) < 15, "Justificativa muito curta">>,
               <<str_len(d.justificativa) > 255, "Justificativa muito longa">> >>)

\* DadosInutilizacao::gerar_id
DadosInutilizacao_gerar_id(d, codigo_uf) ==
    <<"I", "D">> \o FmtZero(codigo_uf, 2) \o FmtZero(d.ano, 4) \o d.cnpj
    \o FmtZero(d.modelo, 2) \o FmtZero(d.serie, 3)
    \o FmtZero(d.numero_inicial, 9) \o FmtZero(d.numero_final, 9)

TipoManifestacao ==
    {"CienciaOperacao", "ConfirmacaoOperacao", "DesconhecimentoOperacao",
     "OperacaoNaoRealizada"}

\* TipoManifestacao::codigo
codigo(tipo) ==
    CASE tipo = "CienciaOperacao" -> 210210
      [] tipo = "ConfirmacaoOperacao" -> 210200
      [] tipo = "DesconhecimentoOperacao" -> 210220
      [] OTHER -> 210240

\* TipoManifestacao::descricao
descricao(tipo) ==
    CASE tipo = "CienciaOperacao" -> <<"Ciencia da Operacao">>
      [] tipo = "ConfirmacaoOperacao" -> <<"Confirmacao da Operacao">>
      [] tipo = "DesconhecimentoOperacao" -> <<"Desconhecimento da Operacao">>
      [] OTHER -> <<"Operacao nao Realizada">>

\* TipoManifestacao::justificativa_obrigatoria
justificativa_obrigatoria(tipo) == tipo = "OperacaoNaoRealizada"

\* DadosManifestacao::validar
DadosManifestacao_validar(d) ==
    Coletar(<< <<str_len(d.chave_acesso) # 44, "Chave de acesso invalida">>,
               <<~AllDigits(d.chave_acesso), "Chave de acesso deve conter apenas numeros">>,
               <<str_len(d.cnpj_destinatario) # 14, "CNPJ invalido">>,
               <<justificativa_obrigatoria(d.tipo_manifestacao) /\ ~d.justificativa.some,
                 "Justificativa e obrigatoria para Operacao nao Realizada">>,
               <<justificativa_obrigatoria(d.tipo_manifestacao) /\ d.justificativa.some
                   /\ str_len(d.justificativa.val) < 15,
                 "Justificativa muito curta">>,
               <<justificativa_obrigatoria(d.tipo_manifestacao) /\ d.justificativa.some
                   /\ str_len(d.justificativa.val) >= 15
                   /\ str_len(d.justificativa.val) > 255,
                 "Justificativa muito longa">> >>)

\* DadosManifestacao::gerar_id
DadosManifestacao_gerar_id(d, sequencia) ==
    <<"I", "D">> \o Dec(codigo(d.tipo_manifestacao)) \o d.chave_acesso
    \o FmtZero(sequencia, 2)

\* gerar_xml_manifestacao when the clock reads data; the first two bytes of
\* the key are sliced out, which panics on a shorter key
gerar_xml_manifestacao(dados, ambiente, sequencia, data) ==
    LET det_evento ==
            <<OpenAttr("detEvento", << <<"versao", "1.00">> >>), Ind(12)>>
            \o El("descEvento", descricao(dados.tipo_manifestacao))
            \o (IF dados.justificativa.some
                THEN <<Ind(12)>> \o El("xJust", dados.justificativa.val)
                ELSE <<>>)
            \o <<Ind(8), Close("detEvento")>>
    IN  IF str_len(dados.chave_acesso) < 2 THEN SignPanic
        ELSE EvOk(
            << Decl, Ind(0),
               OpenAttr("envEvento", << NsNfe, <<"versao", "1.00">> >>), Ind(4) >>
            \o El("idLote", <<"1">>) \o <<Ind(4)>>
            \o << OpenAttr("evento", << <<"versao", "1.00">> >>), Ind(8),
                  OpenId("infEvento", DadosManifestacao_gerar_id(dados, sequencia)), Ind(12) >>
            \o El("cOrgao", SubSeq(dados.chave_acesso, 1, 2)) \o <<Ind(12)>>
            \o El("tpAmb", Dec(ambiente)) \o <<Ind(12)>>
            \o El("CNPJ", dados.cnpj_destinatario) \o <<Ind(12)>>
            \o El("chNFe", dados.chave_acesso) \o <<Ind(12)>>
            \o El("dhEvento", data) \o <<Ind(12)>>
            \o El("tpEvento", Dec(codigo(dados.tipo_manifestacao))) \o <<Ind(12)>>
            \o El("nSeqEvento", Dec(sequencia)) \o <<Ind(12)>>
            \o El("verEvento", <<"1",".","0","0">>) \o <<Ind(12)>>
            \o det_evento
            \o << Ind(8), Close("infEvento"), Ind(4), Close("evento"),
                  Ind(0), Close("envEvento") >>)

\* the text of n characters c
Enche(c, n) == [i \in 1..n |-> c]

\* justifications around the limits of 15 and 255, written in ASCII and
\* with characters outside ASCII
Justs ==
    { <<>>, Enche("x", 14), Enche("x", 15), Enche("x", 255), Enche("x", 256),
      Enche("x", 13) \o <<"c-cedilha">>,
      Enche("a-til", 15),
      Enche("a-til", 128) }

Cnpjs == { CnpjDigitos, CnpjFormatado, Enche("1", 13) \o <<"a">> }

Inutilizacoes ==
    [kind : {"inut"},
     ano : {2005, 2006, 2099, 2100},
     cnpj : Cnpjs,
     modelo : {55, 65, 57},
     serie : {999, 1000},
     numero_inicial : {0, 1, 999999999, 1000000000},
     numero_final : {0, 1, 999999999, 1000000000},
     justificativa : Justs]

CodigosUF == {11, 35, 99}

Manifestacoes ==
    [kind : {"manif"},
     chave_acesso : { ChaveValida, Tail(ChaveValida), [ChaveValida EXCEPT ![1] = "a"] },
     cnpj_destinatario : { CnpjDigitos, CnpjFormatado },
     tipo_manifestacao : TipoManifestacao,
     justificativa : {None} \cup { Some(j) : j \in Justs }]

\* DadosInutilizacao::validar on the data in hand
ValidarInutilizacao ==
    /\ iop = "idle"
    /\ idados.kind = "inut"
    /\ ires' = DadosInutilizacao_validar(idados)
    /\ iop' = "validar"
    /\ UNCHANGED <<idados, iout, kvars, pvars, svars, cvars, dvars, bvars, tvars>>

\* DadosInutilizacao::gerar_id on the data validated, for a region code
GerarIdInutilizacao ==
    /\ iop = "validar"
    /\ idados.kind = "inut"
    /\ \E codigo_uf \in CodigosUF :
        iout' = [codigo_uf |-> codigo_uf,
                 id |-> DadosInutilizacao_gerar_id(idados, codigo_uf)]
    /\ iop' = "gerar_id"
    /\ UNCHANGED <<idados, ires, kvars, pvars, svars, cvars, dvars, bvars, tvars>>

\* DadosManifestacao::validar on the data in hand
ValidarManifestacao ==
    /\ iop = "idle"
    /\ idados.kind = "manif"
    /\ ires' = DadosManifestacao_validar(idados)
    /\ iop' = "validar"
    /\ UNCHANGED <<idados, iout, kvars, pvars, svars, cvars, dvars, bvars, tvars>>

\* gerar_xml_manifestacao on the data validated
GerarXmlManifestacao ==
    /\ iop = "validar"
    /\ idados.kind = "manif"
    /\ \E ambiente \in {1, 2}, sequencia \in Sequencias, data \in Instantes :
        iout' = gerar_xml_manifestacao(idados, ambiente, sequencia, data)
    /\ iop' = "gerar_xml"
    /\ UNCHANGED <<idados, ires, kvars, pvars, svars, cvars, dvars, bvars, tvars>>

-----------------------------------------------------------------------------
(* Distribution queries                                                     *)

TipoConsultaDistribuicao == {"ConsultaNsu", "ConsultaChave", "DistribuicaoNsu"}

\* DadosConsultaDistribuicao::validar
DadosConsultaDistribuicao_validar(d) ==
    Coletar(<< <<str_len(d.documento) # 11 /\ str_len(d.documento) # 14,
                 "Documento invalido">>,
               <<~AllDigits(d.documento), "Documento deve conter apenas numeros">>,
               <<d.tipo_consulta = "ConsultaNsu" /\ ~d.nsu.some,
                 "NSU e obrigatorio para consulta por NSU">>,
               <<d.tipo_consulta = "ConsultaChave" /\ ~d.chave_acesso.some,
                 "Chave de acesso e obrigatoria para consulta por chave">>,
               <<d.tipo_consulta = "ConsultaChave" /\ d.chave_acesso.some
                   /\ str_len(d.chave_acesso.val) # 44,
                 "Chave de acesso invalida">> >>)

RECURSIVE trim_start_matches(_, _)
\* str::trim_start_matches(c): every leading c goes
trim_start_matches(s, c) ==
    IF s # <<>> /\ s[1] = c THEN trim_start_matches(Tail(s), c) ELSE s

\* gerar_xml_distribuicao
gerar_xml_distribuicao(dados, codigo_uf, ambiente) ==
    LET is_cnpj == str_len(dados.documento) = 14
        doc_tag == IF is_cnpj THEN "CNPJ" ELSE "CPF"
        consulta ==
            CASE dados.tipo_consulta = "ConsultaNsu" ->
                    <<Open("consNSU"), Ind(12)>>
                    \o El("NSU", UnwrapOr(dados.nsu, <<"0">>))
                    \o <<Ind(8), Close("consNSU")>>
              [] dados.tipo_consulta = "ConsultaChave" ->
                    <<Open("consChNFe"), Ind(12)>>
                    \o El("chNFe", UnwrapOr(dados.chave_acesso, <<>>))
                    \o <<Ind(8), Close("consChNFe")>>
              [] OTHER ->
                    <<Open("distNSU"), Ind(12)>>
                    \o El("ultNSU", trim_start_matches(UnwrapOr(dados.ultimo_nsu, <<"0">>), "0"))
                    \o <<Ind(8), Close("distNSU")>>
    IN  << Decl, Ind(0),
           OpenAttr("distDFeInt", << NsNfe, <<"versao", "1.01">> >>), Ind(4) >>
        \o El("tpAmb", Dec(ambiente)) \o <<Ind(4)>>
        \o El("cUFAutor", FmtZero(codigo_uf, 2)) \o <<Ind(4)>>
        \o El(doc_tag, dados.documento) \o <<Ind(4)>>
        \o consulta
        \o <<Ind(0), Close("distDFeInt")>>

Nsu15 == <<"0","0","0","0","0","0","0","0","0","0","0","0","1","5","0">>

Documentos == { CnpjDigitos, CpfDigitos, CnpjFormatado, Enche("1", 13) \o <<"a">> }

ConsultasDistribuicao ==
    [kind : {"dist"},
     documento : Documentos,
     tipo_consulta : TipoConsultaDistribuicao,
     nsu : { None, Some(<<>>), Some(Nsu15) },
     ultimo_nsu : { None, Some(<<>>), Some(<<"0">>), Some(<<"0","0","0">>), Some(Nsu15) },
     chave_acesso : { None, Some(ChaveValida), Some(Tail(ChaveValida)),
                      Some([ChaveValida EXCEPT ![1] = "a"]),
                      Some(Enche("1", 42) \o <<"a-til">>) }]

\* DadosConsultaDistribuicao::validar on the query in hand
ValidarDistribuicao ==
    /\ iop = "idle"
    /\ idados.kind = "dist"
    /\ ires' = DadosConsultaDistribuicao_validar(idados)
    /\ iop' = "validar"
    /\ UNCHANGED <<idados, iout, kvars, pvars, svars, cvars, dvars, bvars, tvars>>

\* gerar_xml_distribuicao on the query validated
GerarXmlDistribuicao ==
    /\ iop = "validar"
    /\ idados.kind = "dist"
    /\ \E codigo_uf \in CodigosUF, ambiente \in {1, 2} :
        iout' = gerar_xml_distribuicao(idados, codigo_uf, ambiente)
    /\ iop' = "gerar_xml"
    /\ UNCHANGED <<idados, ires, kvars, pvars, svars, cvars, dvars, bvars, tvars>>

-----------------------------------------------------------------------------
(* Operations side by side on one SefazClient                              *)

\* the callers that hold a reference to the one client
Tarefas == {"t1", "t2"}

NoTarefa ==
    [pc |-> "idle", cli |-> NoClient, call |-> <<>>, req |-> NoReq, net |-> NoNet,
     out |-> NoOut]

\* an operation and its arguments; dh is the clock reading an event is
\* stamped with and lote the fresh uuid of a batch
Operacao(op, chave, texto, seq, xml, dh, lote) ==
    [op |-> op, chave |-> chave, texto |-> texto, seq |-> seq, xml |-> xml, dh |-> dh,
     lote |-> lote]

Operacoes ==
    { Operacao("status_servico", <<>>, <<>>, 0, <<>>, <<>>, <<>>) }
    \cup { Operacao("consultar_nfe", ChaveValida, <<>>, 0, <<>>, <<>>, <<>>) }
    \cup { Operacao("cancelar_nfe", ChaveValida, Repeat("x", 15), 0, <<>>, dh, <<>>) :
             dh \in Instantes }
    \cup { Operacao("carta_correcao", ChaveValida, Repeat("x", 15), seq, <<>>, dh, <<>>) :
             seq \in {12}, dh \in {<<"2024-06-01T10:00:00-03:00">>} }
    \cup { Operacao("autorizar_nfe", <<>>, <<>>, 0,
                    Doc([decl |-> FALSE, el |-> "infNFe", idpos |-> idpos, ws |-> "none",
                         order |-> "normal"]), <<>>, <<"0123456789abcde">>) :
             idpos \in {"own", "none"} }

\* the operation o on the client c, up to its request
Preparar(c, o) ==
    CASE o.op = "status_servico" -> status_servico(c)
      [] o.op = "consultar_nfe" -> consultar_nfe(c, o.chave)
      [] o.op = "autorizar_nfe" -> autorizar_nfe(c, o.xml, o.lote)
      [] o.op = "cancelar_nfe" ->
            cancelar_nfe(c, o.chave, <<"135240000000001">>, o.texto, o.dh)
      [] OTHER -> carta_correcao(c, o.chave, o.seq, o.texto, o.dh)

\* the operation o from the await of its request on, the transport having
\* made r of the request
Concluir(o, r) ==
    LET resp == enviar_soap(r) IN
    IF resp.ok
    THEN [kind |-> "ok", prefix |-> "", err |-> "", val |-> ParserOf(o.op, resp.text)]
    ELSE [kind |-> "err", prefix |-> "", err |-> resp.err, val |-> NoVal]

\* what the transport makes of the requests of operations in flight together
RedeTarefas ==
    { r \in NetOutcomes :
        \/ r.kind = "conn"
        \/ r.status = 500 /\ ~r.bodyok
        \/ r.status = 200 /\ r.bodyok
           /\ r.text \in { RespXml(Resp("cm", c, MotivoSimples, <<>>)) :
                             c \in { <<"1","0","0">>, <<"5","3","9">> } } }

\* a response with another one received before it, whichever comes first in ts
resposta_de_outra(ts, t, r) ==
    IF \E u \in DOMAIN ts : u # t /\ ts[u].net.kind # "none"
    THEN ts[CHOOSE u \in DOMAIN ts : u # t /\ ts[u].net.kind # "none"].net
    ELSE r

\* enviar_soap's `.send().await`: the future a call awaits is the one of the
\* request it built, so the response r it resumes with is the one to that request
resposta_propria(ts, t, r) == r

\* task t calls an operation on the shared client: it runs to the await of
\* its request, or to its end when it returns before sending anything
Iniciar(t) ==
    /\ tasks[t].pc = "idle"
    /\ \E o \in Operacoes :
         LET prep == Preparar(client, o) IN
         tasks' = [tasks EXCEPT ![t] =
                     IF prep.kind = "send"
                     THEN [pc |-> "awaiting", cli |-> client, call |-> o, req |-> prep.req,
                           net |-> NoNet, out |-> NoOut]
                     ELSE [pc |-> "done", cli |-> client, call |-> o, req |-> NoReq,
                           net |-> NoNet,
                           out |-> [kind |-> prep.kind, prefix |-> prep.prefix,
                                    err |-> prep.err, val |-> prep.val]]]
    /\ UNCHANGED <<kvars, pvars, svars, cvars, dvars, bvars, ivars>>

\* the response to task t's request arrives and its operation runs to the end
Receber(t) ==
    /\ tasks[t].pc = "awaiting"
    /\ \E r \in RedeTarefas :
         tasks' = [tasks EXCEPT ![t].pc = "done", ![t].net = r,
                                ![t].out = Concluir(tasks[t].call,
                                                    resposta_propria(tasks, t, r))]
    /\ UNCHANGED <<kvars, pvars, svars, cvars, dvars, bvars, ivars>>

\* the caller takes the Result; the task is free for its next call
Devolver(t) ==
    /\ tasks[t].pc = "done"
    /\ tasks' = [tasks EXCEPT ![t] = NoTarefa]
    /\ UNCHANGED <<kvars, pvars, svars, cvars, dvars, bvars, ivars>>

IniciarOperacao == \E t \in Tarefas : Iniciar(t)
ReceberResposta == \E t \in Tarefas : Receber(t)
DevolverResultado == \E t \in Tarefas : Devolver(t)

-----------------------------------------------------------------------------
(* The two check-digit functions on one body                               *)

DvOk(dv) == [ok |-> TRUE, err |-> "", chave |-> <<>>, dv |-> dv]

\* bodies of 43 digits: an accepted key without its check digit with two of
\* its digits replaced, and the two bodies of one repeated digit
Corpos43 ==
    { [SubSeq(ChaveValida, 1, 43) EXCEPT ![i] = d, ![43] = e] :
        i \in {1, 22, 36}, d \in Digits, e \in Digits }
    \cup { Enche("0", 43), Enche("9", 43) }

\* a call calcular_dv_mod11(kargs) of the web crate
CalcularDvMod11 ==
    /\ kstep = "corpo"
    /\ ~kres.ok
    /\ kres' = DvOk(calcular_dv_mod11(kargs))
    /\ UNCHANGED <<kstep, kargs, vin, vres, korig, pvars, svars, cvars, dvars, bvars, ivars, tvars>>

\* a call calcular_dv(kargs) of the NF-e builder
CalcularDv ==
    /\ kstep = "corpo"
    /\ ~vres.ok
    /\ vres' = DvOk(calcular_dv(kargs))
    /\ UNCHANGED <<kstep, kargs, kres, vin, korig, pvars, svars, cvars, dvars, bvars, ivars, tvars>>

-----------------------------------------------------------------------------
(* Resolvers side by side on one GraphQLState                              *)

\* the clock while the resolvers run
AgoraEstado == 5

\* containers handed to carregar_certificado: two that load and are valid at
\* AgoraEstado, one in its last day, one without an HTTP identity, one that
\* is not a PKCS12 container, one that is not base64
PfxsEstado ==
    { [forma |-> "ok", not_before |-> 4, not_after |-> na, identity |-> TRUE] :
        na \in {16, 20, 6} }
    \cup { [forma |-> "ok", not_before |-> 4, not_after |-> 16, identity |-> FALSE],
           [forma |-> "pkcs12", not_before |-> 4, not_after |-> 16, identity |-> TRUE],
           [forma |-> "base64", not_before |-> 4, not_after |-> 16, identity |-> TRUE] }

NoResolver ==
    [pc |-> "idle", op |-> "", pfx |-> <<>>, res |-> CertErr(""), cert |-> None,
     cli |-> None, out |-> ""]

\* the tasks that hold the state's read guard
Leitores(ts) == { u \in DOMAIN ts : ts[u].pc \in {"guard", "awaiting"} }

\* a write guard that is handed out at once, readers or not
RwLock_write_sem_espera(ts) == TRUE

\* state.write().await resumes once no task holds a guard; the write guard
\* itself is held over the two assignments only, with no await between them
RwLock_write(ts) == Leitores(ts) = {}

\* carregar_certificado up to the update of the state: it returns the error
\* of the step that failed, or has a certificate and a client built from it
CarregarIniciar(t) ==
    /\ tasks[t].pc = "idle"
    /\ \E pfx_data \in PfxsEstado, ambiente \in {"", "homologacao"} :
         LET r == carregar_certificado(pfx_data, now, <<"s","p">>, ambiente) IN
         tasks' = [tasks EXCEPT ![t] =
                     [NoResolver EXCEPT !.op = "carregar_certificado", !.pfx = pfx_data,
                                        !.res = r,
                                        !.pc = IF r.kind = "ok" THEN "built" ELSE "done",
                                        !.out = IF r.kind = "ok" THEN "" ELSE "Err"]]
    /\ UNCHANGED <<kvars, pvars, svars, cvars, dvars, bvars, ivars>>

\* carregar_certificado from state.write().await to its end
CarregarGravar(t) ==
    /\ tasks[t].pc = "built"
    /\ RwLock_write(tasks)
    /\ gstate' = [certificado |-> Some(tasks[t].res.cert),
                  sefaz_client |-> Some(tasks[t].res.client)]
    /\ tasks' = [tasks EXCEPT ![t].pc = "done", ![t].out = "Ok"]
    /\ UNCHANGED <<client, cpc, ccall, creqs, cnet, cparsed, cout,
                   kvars, pvars, svars, dvars, bvars, ivars>>

\* emitir_nfe takes the read guard and evaluates &state.certificado
EmitirLerCertificado(t) ==
    /\ tasks[t].pc = "idle"
    /\ tasks' = [tasks EXCEPT ![t] =
                   [NoResolver EXCEPT !.op = "emitir_nfe", !.pc = "guard",
                                      !.cert = gstate.certificado]]
    /\ UNCHANGED <<kvars, pvars, svars, cvars, dvars, bvars, ivars>>

\* emitir_nfe evaluates &state.sefaz_client: with both present it signs with
\* the one and sends through the other, keeping the guard over the await;
\* otherwise it drops the guard and returns the 999 result
EmitirLerCliente(t) ==
    /\ tasks[t].pc = "guard"
    /\ tasks' = [tasks EXCEPT ![t].cli = gstate.sefaz_client,
                              ![t].pc = IF tasks[t].cert.some /\ gstate.sefaz_client.some
                                        THEN "awaiting" ELSE "done",
                              ![t].out = IF tasks[t].cert.some /\ gstate.sefaz_client.some
                                         THEN "" ELSE "999"]
    /\ UNCHANGED <<kvars, pvars, svars, cvars, dvars, bvars, ivars>>

\* cancelar_nfe takes the read guard and evaluates state.sefaz_client
CancelarLerCliente(t) ==
    /\ tasks[t].pc = "idle"
    /\ tasks' = [tasks EXCEPT ![t] =
                   [NoResolver EXCEPT !.op = "cancelar_nfe", !.cli = gstate.sefaz_client,
                                      !.pc = IF gstate.sefaz_client.some
                                             THEN "awaiting" ELSE "done",
                                      !.out = IF gstate.sefaz_client.some
                                              THEN "" ELSE "999"]]
    /\ UNCHANGED <<kvars, pvars, svars, cvars, dvars, bvars, ivars>>

\* the client's call ends; the resolver returns and its guard is dropped
ResolverConcluir(t) ==
    /\ tasks[t].pc = "awaiting"
    /\ tasks' = [tasks EXCEPT ![t].pc = "done", ![t].out = "Ok"]
    /\ UNCHANGED <<kvars, pvars, svars, cvars, dvars, bvars, ivars>>

\* the caller has the result; the task is free for its next request
ResolverDevolver(t) ==
    /\ tasks[t].pc = "done"
    /\ tasks' = [tasks EXCEPT ![t] = NoResolver]
    /\ UNCHANGED <<kvars, pvars, svars, cvars, dvars, bvars, ivars>>

-----------------------------------------------------------------------------
(* Lookups by access key: GraphQL, the consulta module and the REST route  *)

Cem == Str(<<"1","0","0">>)

LookupErr(msg) == [kind |-> "err", prefix |-> "", err |-> msg, val |-> NoVal]
LookupOk(v) == [kind |-> "ok", prefix |-> "", err |-> "", val |-> v]

\* gerar_url_consulta_portal
gerar_url_consulta_portal(chave_acesso) ==
    <<"https://www.nfe.fazenda.gov.br/portal/consultaRecaptcha.aspx?nfe=">> \o chave_acesso

\* sefaz::consultar_nfe_sefaz: it sends nothing
consultar_nfe_sefaz(chave_acesso) ==
    LET info == validar_chave_acesso(chave_acesso) IN
    IF ~info.ok THEN LookupErr(info.err)
    ELSE LookupOk(Res(TRUE, Cem, Str(<<"Consulte no portal para detalhes completos">>)))

\* sefaz::consultar_portal_publico up to its GET request
consultar_portal_publico(chave_acesso) ==
    LET info == validar_chave_acesso(chave_acesso) IN
    IF ~info.ok THEN Falha([kind |-> "err", err |-> info.err], "")
    ELSE Send(gerar_url_consulta_portal(chave_acesso), "GET", <<>>)

\* sefaz::consultar_portal_publico from the await of its request on: the
\* body of the response is never read
consultar_portal_publico_fim(r) ==
    IF r.kind = "conn" THEN LookupErr("Erro ao acessar portal")
    ELSE IF is_success(r.status)
    THEN LookupOk(Res(TRUE, Cem, Str(<<"Acesse a URL para ver detalhes">>)))
    ELSE LookupErr("Portal retornou erro")

\* the REST route consultar_nfe (main.rs) for a body with a key, up to the
\* request of the consultar_portal_publico it calls with the cleaned key
main_consultar_nfe(chave) ==
    LET info == validar_chave_acesso(chave) IN
    IF ~info.ok THEN Falha([kind |-> "err", err |-> info.err], "")
    ELSE consultar_portal_publico(info.chave)

\* the REST route from the await on: an Err of the portal lookup becomes a
\* success result
main_consultar_nfe_fim(r) ==
    LET resultado == consultar_portal_publico_fim(r) IN
    IF resultado.kind = "ok" THEN resultado
    ELSE LookupOk(Res(TRUE, Cem, Str(<<"Chave valida. Erro na consulta automatica">>)))

\* QueryRoot::consultar_sefaz up to the request of the client it finds in
\* the state, or to its end when there is none
consultar_sefaz(st, chave_acesso) ==
    LET info == validar_chave_acesso(chave_acesso) IN
    IF ~info.ok THEN Falha([kind |-> "err", err |-> info.err], "")
    ELSE IF st.sefaz_client.some THEN consultar_nfe(st.sefaz_client.val, chave_acesso)
    ELSE Valor(Res(TRUE, Cem, Str(<<"Chave valida - use certificado para consulta completa">>)))

\* QueryRoot::consultar_sefaz from the await of the client's request on
consultar_sefaz_fim(r) ==
    LET resp == enviar_soap(r) IN
    IF resp.ok THEN LookupOk(parsear_consulta(resp.text))
    ELSE [LookupErr(resp.err) EXCEPT !.prefix = "Erro SEFAZ: "]

\* a lookup that returns without awaiting anything
ConsultarNfeSefaz ==
    /\ cpc = "idle"
    /\ \E chave \in Chaves :
         /\ ccall' = Call("consultar_nfe_sefaz", chave, <<>>, <<>>, <<>>)
         /\ cout' = consultar_nfe_sefaz(chave)
    /\ cpc' = "done"
    /\ UNCHANGED <<client, gstate, creqs, cnet, cparsed, kvars, pvars, svars, dvars, bvars, ivars, tvars>>

ConsultarPortalPublico ==
    \E chave \in Chaves :
        Chamar(Call("consultar_portal_publico", chave, <<>>, <<>>, <<>>),
               consultar_portal_publico(chave))

RestConsultarNfe ==
    \E chave \in Chaves :
        Chamar(Call("main_consultar_nfe", chave, <<>>, <<>>, <<>>), main_consultar_nfe(chave))

ConsultarSefaz ==
    \E chave \in Chaves :
        Chamar(Call("consultar_sefaz", chave, <<>>, <<>>, <<>>), consultar_sefaz(gstate, chave))

\* the transport answers the lookup's request and the lookup runs to its end
ResponderConsulta ==
    /\ cpc = "awaiting"
    /\ \E r \in NetOutcomes :
         /\ cnet' = r
         /\ cout' = CASE ccall.op = "consultar_portal_publico" -> consultar_portal_publico_fim(r)
                       [] ccall.op = "main_consultar_nfe" -> main_consultar_nfe_fim(r)
                       [] OTHER -> consultar_sefaz_fim(r)
         /\ cparsed' = IF ccall.op = "consultar_sefaz" /\ enviar_soap(r).ok
                       THEN Append(cparsed, r.text) ELSE cparsed
    /\ cpc' = "done"
    /\ UNCHANGED <<client, gstate, ccall, creqs, kvars, pvars, svars, dvars, bvars, ivars, tvars>>

-----------------------------------------------------------------------------
(* Nothing signed twice, verified, loaded or validated yet                 *)

NoVer == [kind |-> "none", val |-> FALSE, err |-> "", n |-> 0]

DBlank ==
    /\ dalt = <<>>
    /\ dres = NoSign
    /\ vest = NoVer
    /\ vdig = NoVer

NoBundle == [kind |-> "none"]

BBlank ==
    /\ now = 0
    /\ pfx = [kind |-> "none"]
    /\ bundle = NoBundle
    /\ bcli = [kind |-> "none"]

IBlank ==
    /\ iop = "idle"
    /\ idados = [kind |-> "none"]
    /\ ires = [kind |-> "none"]
    /\ iout = <<>>

TBlank ==
    /\ tasks = <<>>

-----------------------------------------------------------------------------
(* Specifications                                                          *)

vars == <<kvars, pvars, svars, cvars, dvars, bvars, ivars, tvars>>

\* SpecKey: composing keys from wide argument tuples, validating what was composed
InitKey ==
    /\ \/ kstep = "args" /\ kargs \in WideFields
       \/ kstep = "bargs" /\ kargs \in BuildArgs
    /\ KBlank
    /\ PBlank
    /\ SBlank
    /\ CBlank
    /\ DBlank
    /\ BBlank
    /\ IBlank
    /\ TBlank

NextKey == Gerar \/ Build \/ ValidarGerada

SpecKey == InitKey /\ [][NextKey]_vars

\* SpecChave: validating altered key texts
InitChave ==
    /\ kstep = "args"
    /\ kargs \in SeedFields
    /\ KBlank
    /\ PBlank
    /\ SBlank
    /\ CBlank
    /\ DBlank
    /\ BBlank
    /\ IBlank
    /\ TBlank

NextChave == Gerar \/ ValidarGerada \/ Corromper \/ ValidarTexto

SpecChave == InitChave /\ [][NextChave]_vars

\* SpecParse: every parser on every response
InitParse ==
    /\ kstep = "idle" /\ kargs = <<>> /\ KBlank
    /\ pstep = "resp"
    /\ presp \in Respostas
    /\ pxml = RespXml(presp)
    /\ pres = Res(FALSE, <<>>, <<>>)
    /\ SBlank
    /\ CBlank
    /\ DBlank
    /\ BBlank
    /\ IBlank
    /\ TBlank

NextParse ==
    \/ ParsearStatusServico \/ ParsearConsulta \/ ParsearAutorizacao \/ ParsearEvento
    \/ ParsearInutilizacao \/ ParsearDistribuicao \/ ParsearManifestacao

SpecParse == InitParse /\ [][NextParse]_vars

\* SpecSign: signing, and signing again, every document
InitSign ==
    /\ kstep = "idle" /\ kargs = <<>> /\ KBlank
    /\ PBlank
    /\ scert \in Certs
    /\ sxml \in Docs
    /\ sin = <<>>
    /\ sel = ""
    /\ sres = NoSign
    /\ snsign = 0
    /\ CBlank
    /\ DBlank
    /\ BBlank
    /\ IBlank
    /\ TBlank

NextSign == AssinarNfe \/ AssinarEvento \/ AssinarLote \/ AssinarInutilizacao

SpecSign == InitSign /\ [][NextSign]_vars

\* SpecClient: calls on a client, through the GraphQL state or directly
InitClient ==
    /\ kstep = "idle" /\ kargs = <<>> /\ KBlank
    /\ PBlank
    /\ SBlank
    /\ client \in Clients
    /\ gstate \in { [certificado |-> None, sefaz_client |-> None],
                    [certificado |-> Some(client.certificado), sefaz_client |-> Some(client)] }
    /\ CIdle
    /\ DBlank
    /\ BBlank
    /\ IBlank
    /\ TBlank

NextClient ==
    \/ ChamarStatusServico \/ ChamarConsultarNfe \/ ChamarAutorizarNfe
    \/ ChamarCancelarNfe \/ ChamarCartaCorrecao \/ EmitirNfe
    \/ Responder \/ Retornar

SpecClient == InitClient /\ [][NextClient]_vars

\* SpecDigest: signing a document and its one-character neighbour, verifying
\* what was signed
InitDigest ==
    /\ kstep = "idle" /\ kargs = <<>> /\ KBlank
    /\ PBlank
    /\ scert \in Certs
    /\ sxml \in DigestDocs
    /\ sin = <<>>
    /\ sel = ""
    /\ sres = NoSign
    /\ snsign = 0
    /\ CBlank
    /\ DBlank
    /\ BBlank
    /\ IBlank
    /\ TBlank

NextDigest ==
    \/ AssinarNfe \/ AssinarEvento \/ AssinarLote \/ AssinarInutilizacao
    \/ AssinarAlterado \/ ValidarEstrutura \/ VerificarDigest

SpecDigest == InitDigest /\ [][NextDigest]_vars

\* SpecCert: loading a container at some time, building a client from the
\* bundle, directly or through the resolver, while the clock moves on
InitCert ==
    /\ kstep = "idle" /\ kargs = <<>> /\ KBlank
    /\ PBlank
    /\ SBlank
    /\ CBlank
    /\ DBlank
    /\ now = 0
    /\ pfx \in Pfxs \cup { [forma |-> "base64", not_before |-> 4, not_after |-> 16,
                            identity |-> TRUE] }
    /\ bundle = NoBundle
    /\ bcli = [kind |-> "none"]
    /\ IBlank
    /\ TBlank

NextCert == Tick \/ FromBytes \/ SefazClientNew \/ CarregarCertificado

SpecCert == InitCert /\ [][NextCert]_vars

\* SpecReq: validating request data, then generating its id or its event
InitReq ==
    /\ kstep = "idle" /\ kargs = <<>> /\ KBlank
    /\ PBlank
    /\ SBlank
    /\ CBlank
    /\ DBlank
    /\ BBlank
    /\ iop = "idle"
    /\ idados \in Inutilizacoes \cup Manifestacoes
    /\ ires = [kind |-> "none"]
    /\ iout = <<>>
    /\ TBlank

NextReq ==
    \/ ValidarInutilizacao \/ GerarIdInutilizacao
    \/ ValidarManifestacao \/ GerarXmlManifestacao

SpecReq == InitReq /\ [][NextReq]_vars

\* SpecDist: validating a distribution query, then writing it
InitDist ==
    /\ kstep = "idle" /\ kargs = <<>> /\ KBlank
    /\ PBlank
    /\ SBlank
    /\ CBlank
    /\ DBlank
    /\ BBlank
    /\ iop = "idle"
    /\ idados \in ConsultasDistribuicao
    /\ ires = [kind |-> "none"]
    /\ iout = <<>>
    /\ TBlank

NextDist == ValidarDistribuicao \/ GerarXmlDistribuicao

SpecDist == InitDist /\ [][NextDist]_vars

\* SpecTarefas: two callers running operations on one shared client
InitTarefas ==
    /\ kstep = "idle" /\ kargs = <<>> /\ KBlank
    /\ PBlank
    /\ SBlank
    /\ client \in { c \in Clients : c.uf = <<"M","G">> }
    /\ gstate = [certificado |-> None, sefaz_client |-> None]
    /\ CIdle
    /\ DBlank
    /\ BBlank
    /\ IBlank
    /\ tasks = [t \in Tarefas |-> NoTarefa]

NextTarefas == IniciarOperacao \/ ReceberResposta \/ DevolverResultado

SpecTarefas == InitTarefas /\ [][NextTarefas]_vars

\* SpecDV: both check-digit functions applied to bodies of 43 digits
InitDV ==
    /\ kstep = "corpo" /\ kargs \in Corpos43 /\ KBlank
    /\ PBlank
    /\ SBlank
    /\ CBlank
    /\ DBlank
    /\ BBlank
    /\ IBlank
    /\ TBlank

NextDV == CalcularDvMod11 \/ CalcularDv

SpecDV == InitDV /\ [][NextDV]_vars

\* SpecEstado: two requests at a time on one GraphQLState
InitEstado ==
    /\ kstep = "idle" /\ kargs = <<>> /\ KBlank
    /\ PBlank
    /\ SBlank
    /\ CBlank
    /\ DBlank
    /\ now = AgoraEstado
    /\ pfx = [kind |-> "none"]
    /\ bundle = NoBundle
    /\ bcli = [kind |-> "none"]
    /\ IBlank
    /\ tasks = [t \in Tarefas |-> NoResolver]

NextEstado ==
    \/ \E t \in Tarefas : CarregarIniciar(t)
    \/ \E t \in Tarefas : CarregarGravar(t)
    \/ \E t \in Tarefas : EmitirLerCertificado(t)
    \/ \E t \in Tarefas : EmitirLerCliente(t)
    \/ \E t \in Tarefas : CancelarLerCliente(t)
    \/ \E t \in Tarefas : ResolverConcluir(t)
    \/ \E t \in Tarefas : ResolverDevolver(t)

SpecEstado == InitEstado /\ [][NextEstado]_vars

\* SpecConsulta: the lookups by access key, with and without a loaded client
InitConsulta ==
    /\ kstep = "idle" /\ kargs = <<>> /\ KBlank
    /\ PBlank
    /\ SBlank
    /\ client \in { c \in Clients : c.uf = <<"S","P">> /\ c.certificado.keyok }
    /\ gstate \in { [certificado |-> None, sefaz_client |-> None],
                    [certificado |-> Some(client.certificado), sefaz_client |-> Some(client)] }
    /\ CIdle
    /\ DBlank
    /\ BBlank
    /\ IBlank
    /\ TBlank

NextConsulta ==
    \/ ConsultarNfeSefaz \/ ConsultarPortalPublico \/ RestConsultarNfe \/ ConsultarSefaz
    \/ ResponderConsulta \/ Retornar

SpecConsulta == InitConsulta /\ [][NextConsulta]_vars

-----------------------------------------------------------------------------
(* The mod-11 rule as the authority publishes it, for 43-digit bodies      *)

RECURSIVE RefSoma(_, _)
\* sum over the i rightmost digits, weights 2..9 cycling from the right
RefSoma(body, i) ==
    IF i = 0 THEN 0
    ELSE DigitVal(body[Len(body) + 1 - i]) * (2 + ((i - 1) % 8)) + RefSoma(body, i - 1)

RefResto(body) == RefSoma(body, Len(body)) % 11

RefDV(body) == IF RefResto(body) \in {0, 1} THEN 0 ELSE 11 - RefResto(body)

-----------------------------------------------------------------------------
(* Claims about the access-key codec                                       *)

FitsLayout(f) ==
    /\ f.uf \in Siglas
    /\ Len(f.ano_mes) = 4 /\ AllDigits(f.ano_mes)
    /\ Len(f.cnpj) = 14 /\ AllDigits(f.cnpj)
    /\ f.modelo <= 99 /\ f.serie <= 999 /\ f.numero <= 999999999
    /\ f.tipo_emissao <= 9 /\ f.codigo_numerico <= 99999999

\* C1: for every field tuple that fits the key layout, gerar_chave_acesso succeeds
\* and validar_chave_acesso of its result succeeds and returns the same uf,
\* ano_mes, cnpj, modelo, serie, numero, tipo_emissao and codigo_numerico, with
\* dv the mod-11 check digit of the first 43 digits.
C1_RoundTrip ==
    (kstep \in {"gerada", "validada"} /\ FitsLayout(kargs)) =>
        /\ kres.ok
        /\ kstep = "validada" =>
            /\ vres.ok
            /\ vres.uf = kargs.uf
            /\ vres.ano_mes = kargs.ano_mes
            /\ vres.cnpj = kargs.cnpj
            /\ vres.modelo = kargs.modelo
            /\ vres.serie = kargs.serie
            /\ vres.numero = kargs.numero
            /\ vres.tipo_emissao = kargs.tipo_emissao
            /\ vres.codigo_numerico = kargs.codigo_numerico
            /\ vres.dv = RefDV(SubSeq(vin, 1, 43))

\* the end-to-end scenario: taxpayer 12345678000199, SP, model 55, series 1,
\* number 1, composed and then validated
C1_Witness ==
    /\ kstep = "validada"
    /\ FitsLayout(kargs)
    /\ vres.ok
    /\ kargs.uf = <<"S","P">> /\ kargs.cnpj = CnpjDigitos /\ kargs.modelo = 55
    /\ kargs.serie = 1 /\ kargs.numero = 1

\* the position at which the altered key differs from the accepted one
PosAlterada == CHOOSE p \in 1..44 : vin[p] # korig[p]

\* C2 as stated: every key obtained from an accepted key by replacing one digit
\* by a different digit is rejected by validar_chave_acesso.
C2_TodaTrocaRejeitada ==
    kstep = "corrompida" => ~vres.ok

\* C2 amended: a key obtained from an accepted key by replacing one digit is
\* rejected unless the digit is one of the 43 body digits and the weighted sums
\* of the two bodies have the remainders 0 and 1 modulo 11 (both of which give
\* check digit 0); replacing the check digit is always rejected.
C2_TrocaRejeitadaSalvoResto01 ==
    (kstep = "corrompida" /\ vres.ok) =>
        /\ PosAlterada <= 43
        /\ {RefResto(SubSeq(korig, 1, 43)), RefResto(SubSeq(vin, 1, 43))} = {0, 1}

\* a replaced check digit, rejected
C2_Witness ==
    /\ kstep = "corrompida"
    /\ ~vres.ok
    /\ PosAlterada = 44

\* C3: validar_chave_acesso returns an error for every input whose length is
\* not 44 or that contains a non-digit character.
C3_RejeitaTextoForaDoFormato ==
    (kstep = "texto" /\ (Len(vin) # 44 \/ ~AllDigits(vin))) => ~vres.ok

\* the layout region(2) year-month(4) taxpayer(14) model(2) series(3) number(9)
\* emission mode(1) numeric code(8) check digit(1), each field holding the
\* value passed in
LayoutGerada(chave, f) ==
    /\ Len(chave) = 44 /\ AllDigits(chave)
    /\ \E t \in GerarUFTable :
          <<t[1], t[2]>> = ToUpper(f.uf) /\ Slice(chave, 0, 2) = <<t[3], t[4]>>
    /\ Slice(chave, 2, 6) = f.ano_mes
    /\ Slice(chave, 6, 20) = FilterDigits(f.cnpj)
    /\ Slice(chave, 20, 22) = FmtZero(f.modelo, 2)
    /\ Slice(chave, 22, 25) = FmtZero(f.serie, 3)
    /\ Slice(chave, 25, 34) = FmtZero(f.numero, 9)
    /\ Slice(chave, 34, 35) = Dec(f.tipo_emissao)
    /\ Slice(chave, 35, 43) = FmtZero(f.codigo_numerico, 8)
    /\ Slice(chave, 43, 44) = Dec(RefDV(Slice(chave, 0, 43)))

LayoutBuild(chave, b) ==
    /\ Len(chave) = 44 /\ AllDigits(chave)
    /\ Slice(chave, 0, 2) = FmtZero(b.codigo_uf, 2)
    /\ Slice(chave, 2, 6) = b.aamm
    /\ b.cnpj_set /\ Slice(chave, 6, 20) = FilterDigits(b.cnpj)
    /\ Slice(chave, 20, 22) = FmtZero(IF b.modelo = -1 THEN 55 ELSE b.modelo, 2)
    /\ Slice(chave, 22, 25) = FmtZero(IF b.serie = -1 THEN 1 ELSE b.serie, 3)
    /\ Slice(chave, 25, 34) = FmtZero(b.numero, 9)
    /\ Slice(chave, 34, 35) = <<"1">>
    /\ Slice(chave, 35, 43) = FmtZero(b.rand, 8)
    /\ Slice(chave, 43, 44) = Dec(RefDV(Slice(chave, 0, 43)))

\* C4: every key that gerar_chave_acesso or NfeBuilder::build returns is 44
\* digits in the layout above with each field holding the value passed in
\* (arguments that cannot fill the layout give an error instead).
C4_ChaveSempreNoLayout ==
    /\ (kstep = "gerada" /\ kres.ok) => LayoutGerada(kres.chave, kargs)
    /\ (kstep = "build" /\ kres.ok) => LayoutBuild(kres.chave, kargs)

-----------------------------------------------------------------------------
(* Claims about the response parsers                                       *)

Parsers == {"status", "consulta", "autorizacao", "evento", "inutilizacao",
            "distribuicao", "manifestacao"}

\* the table of section 4.6
Tabela(op) ==
    CASE op = "status" -> {107}
      [] op = "consulta" -> {100, 101}
      [] op = "autorizacao" -> {100, 104}
      [] op = "evento" -> {135, 136}
      [] op = "manifestacao" -> {135, 136}
      [] op = "inutilizacao" -> {102}
      [] op = "distribuicao" -> {137, 138}

\* the response carries a status code: a closed cStat element with text
TemCodigo(r) == r.shape \in {"cm", "mc", "c", "lote"}

\* the response carries a reason
TemMotivo(r) == r.shape \in {"cm", "mc", "m", "unclosed", "empty", "lote"}

\* a status code as the authority's schema defines it: three decimal digits
TresDigitos(c) == Len(c) = 3 /\ AllDigits(c)

\* the number a code text denotes when read leniently (sign and leading zeros
\* allowed), -1 when it denotes none
Leitura(c) ==
    LET digs == IF c # <<>> /\ c[1] = "+" THEN Tail(c) ELSE c
    IN  IF digs # <<>> /\ AllDigits(digs) THEN DigitsValue(digs, Len(digs)) ELSE -1

\* C7: for every status code (three digits), each parser sets its success
\* flag exactly when the code is in the table of its operation.
C7_SucessoConformeTabela ==
    (pstep \in Parsers /\ TemCodigo(presp) /\ TresDigitos(presp.code)) =>
        (pres.sucesso <=> DigitsValue(presp.code, 3) \in Tabela(pstep))

\* batch authorization answered 104 is a success
C7_Witness ==
    /\ pstep = "autorizacao"
    /\ TemCodigo(presp) /\ presp.code = <<"1","0","4">>
    /\ pres.sucesso

\* C8: for every response whose status code is outside the operation's
\* success set, or that has no status code, the parser returns a value whose
\* success flag is false and whose reason is the xMotivo text unchanged.
C8_FalhaPreservaMotivo ==
    (pstep \in Parsers /\ (~TemCodigo(presp) \/ Leitura(presp.code) \notin Tabela(pstep))) =>
        /\ pres.ok
        /\ ~pres.sucesso
        /\ TemMotivo(presp) => pres.motivo = Str(presp.motivo)

\* a manifest response without status code, its reason kept blanks included
C8_Witness ==
    /\ pstep = "manifestacao"
    /\ presp.shape = "m"
    /\ presp.motivo = <<" ","R","e","j"," ">>
    /\ pres.ok /\ ~pres.sucesso
    /\ pres.motivo = Str(presp.motivo)

-----------------------------------------------------------------------------
(* Signer claims                                                           *)

\* how many tags of the text open an element named n
CountOpen(xml, n) == Cardinality({ i \in 1..Len(xml) : xml[i].k \in {"open", "empty"} /\ xml[i].n = n })

UmaDeCada(xml) ==
    /\ CountOpen(xml, "Signature") = 1
    /\ CountOpen(xml, "SignedInfo") = 1
    /\ CountOpen(xml, "SignatureValue") = 1
    /\ CountOpen(xml, "X509Certificate") = 1

\* C9: whenever assinar_nfe, assinar_evento, assinar_lote or
\* assinar_inutilizacao succeeds, the returned document holds exactly one
\* Signature, one SignedInfo, one SignatureValue and one X509Certificate.
C9_UmaAssinaturaNaSaida ==
    (sel # "" /\ sres.kind = "ok") => UmaDeCada(sres.xml)

\* the case C9 fails on: a second successful call on an already signed document
C9_DuasAssinaturas ==
    /\ snsign = 2 /\ sres.kind = "ok"
    /\ CountOpen(sin, "Signature") = 1
    /\ CountOpen(sres.xml, "Signature") = 2

-----------------------------------------------------------------------------
(* Client claims                                                           *)

MinJustificativa == 15

ChaveInvalida(call) ==
    /\ call.op \in {"consultar_nfe", "cancelar_nfe", "carta_correcao"}
    /\ ~validar_chave_acesso(call.chave).ok

TextoCurto(call) ==
    /\ call.op \in {"cancelar_nfe", "carta_correcao"}
    /\ Len(call.texto) < MinJustificativa

\* the messages of the validations the repository has
MensagensDeValidacao ==
    { "Chave deve ter 44 digitos", "Codigo UF invalido", "Codigo numerico invalido",
      "DV invalido", "DV invalido: esperado", "Modelo invalido", "Numero invalido",
      "Serie invalida", "Tipo emissao invalido", "UF invalida",
      "Justificativa deve ter no minimo 15 caracteres",
      "Correcao deve ter no minimo 15 caracteres" }

\* C5: a consultar_nfe, cancelar_nfe or carta_correcao call whose access key
\* is not a valid 44-digit key, or a cancelar_nfe / carta_correcao call whose
\* text is shorter than 15 characters, sends no HTTP request and returns a
\* validation error.
C5_EntradaInvalidaNaoVaiARede ==
    (ChaveInvalida(ccall) \/ TextoCurto(ccall)) =>
        /\ creqs = <<>>
        /\ cpc = "done"
        /\ cout.kind = "err"
        /\ cout.err \in MensagensDeValidacao

\* the transport failed: no connection, a status outside 2xx, or a body that
\* could not be read
FalhaDeTransporte(r) ==
    \/ r.kind = "conn"
    \/ r.kind = "resp" /\ (r.status \notin 200..299 \/ ~r.bodyok)

\* C6: a call sends at most one HTTP request and returns that attempt's
\* outcome: after a connection failure, a non-2xx status or a body-read
\* failure the call has ended in an error, with one request sent and no text
\* handed to a parser; after a readable 2xx response it has ended in the
\* value parsed from that response.
C6_UmaTentativaPorChamada ==
    /\ Len(creqs) <= 1
    /\ (cpc = "awaiting") => (Len(creqs) = 1 /\ cparsed = <<>>)
    /\ (cpc = "done" /\ FalhaDeTransporte(cnet)) =>
          (cout.kind = "err" /\ Len(creqs) = 1 /\ cparsed = <<>>)
    /\ (cpc = "done" /\ cnet.kind = "resp" /\ ~FalhaDeTransporte(cnet)) =>
          (cout.kind = "ok" /\ Len(creqs) = 1 /\ cparsed = <<cnet.text>>)

C6_Witness ==
    /\ cpc = "done"
    /\ ccall.op = "cancelar_nfe"
    /\ cnet.kind = "resp" /\ cnet.status = 500 /\ cnet.bodyok
    /\ cout.kind = "err" /\ cout.err = "SEFAZ retornou erro HTTP"
    /\ Len(creqs) = 1 /\ cparsed = <<>>

\* C10: every enviNFe batch that goes out, whether autorizar_nfe was called
\* directly or by the emitir_nfe mutation, carries exactly one Signature.
C10_LoteComUmaAssinatura ==
    \A i \in 1..Len(creqs) :
        CountOpen(creqs[i].body, "enviNFe") > 0 =>
            CountOpen(creqs[i].body, "Signature") = 1

-----------------------------------------------------------------------------
(* The digest, the reference and the verifiers                             *)

DigestDe(res) == stored_digest(res.xml).val

\* C11: two input documents that differ in exactly one character inside the
\* element signed get different DigestValues from the same assinar_* call.
C11_UmCaractereMudaODigest ==
    (snsign = 1 /\ sres.kind = "ok" /\ dres.kind = "ok") =>
        DigestDe(dres) # DigestDe(sres)

\* the case C11 fails on: a character that is not white space replaced by
\* another one that no line-end rewriting makes equal, and the same digest
C11_TextoAlteradoMesmoDigest ==
    /\ snsign = 1 /\ sres.kind = "ok" /\ dres.kind = "ok"
    /\ DigestDe(dres) = DigestDe(sres)
    /\ \E i \in 1..Len(sin) :
        /\ sin[i].k = "text" /\ dalt[i].k = "text"
        /\ NormalizeTok(sin[i]) # NormalizeTok(dalt[i])

\* the element's own start tag carries an Id attribute
OwnId(xml, element) ==
    /\ OwnStart(xml, element) # 0
    /\ HasId(xml[OwnStart(xml, element)])

\* C12: an assinar_* call returns an error whenever the element it signs has
\* no Id attribute of its own; when it succeeds, the Reference URI is "#"
\* followed by the Id of the element's own start tag.
C12_IdDoProprioElemento ==
    (sel # "" /\ sres.kind # "none") =>
        /\ ~OwnId(sin, sel) => sres.kind # "ok"
        /\ sres.kind = "ok" =>
            /\ OwnId(sin, sel)
            /\ reference_uri(sres.xml) = <<"#">> \o IdOf(sin[OwnStart(sin, sel)])

\* the case C12 fails on: the element has no Id, a child of it has one, and
\* the call succeeds with the child's Id in the Reference
C12_IdDeUmFilho ==
    /\ sel # "" /\ sres.kind = "ok"
    /\ ~OwnId(sin, sel)
    /\ reference_uri(sres.xml) = <<"#", "I", "D", "2">>

VerificadoAgora(v) == v.kind # "none" /\ v.n = snsign

\* C13: every document a successful assinar_* call returns is accepted by
\* validar_estrutura_assinatura, and verificar_digest for the name of the
\* element signed returns Ok(true) on it; a document without a Signature
\* element is rejected by validar_estrutura_assinatura.
C13_AssinadoEAceito ==
    /\ (sres.kind = "ok" /\ VerificadoAgora(vest)) => (vest.kind = "ok" /\ vest.val)
    /\ (sres.kind = "ok" /\ VerificadoAgora(vdig)) => (vdig.kind = "ok" /\ vdig.val)
    /\ (VerificadoAgora(vest) /\ CountOpen(sxml, "Signature") = 0) => vest.kind = "err"

\* a case C13 fails on: a document just signed whose digest verificar_digest
\* finds different
C13_DigestRecusado ==
    /\ sres.kind = "ok" /\ VerificadoAgora(vdig)
    /\ vdig.kind = "ok" /\ ~vdig.val

-----------------------------------------------------------------------------
(* Validity of a loaded bundle                                             *)

Carregado == bundle.kind = "loaded" /\ bundle.res.kind = "ok"

\* C14: is_valid() is true for every bundle loaded at a time strictly
\* between not_before and not_after.
C14_ValidoDentroDaJanela ==
    (Carregado /\ pfx.not_before < bundle.em /\ bundle.em < pfx.not_after) =>
        is_valid(bundle.res)

\* the case C14 fails on: loaded inside the window, less than one whole day
\* before not_after
C14_InvalidoNoUltimoDia ==
    /\ Carregado
    /\ pfx.not_before < bundle.em /\ bundle.em < pfx.not_after
    /\ bundle.em + Dia > pfx.not_after
    /\ bundle.res.info.valido
    /\ ~is_valid(bundle.res)

\* C15: in every state after a bundle is loaded, as the clock advances,
\* info.valido equals (not_before <= current time <= not_after), and
\* is_valid() is false whenever the current time is before not_before or
\* after not_after.
C15_ValidoAcompanhaORelogio ==
    Carregado =>
        /\ bundle.res.info.valido = (pfx.not_before <= now /\ now <= pfx.not_after)
        /\ (now < pfx.not_before \/ now > pfx.not_after) => ~is_valid(bundle.res)

\* the case C15 fails on: loaded inside the window, read after not_after
C15_ValidoDepoisDeVencer ==
    /\ Carregado
    /\ now > pfx.not_after
    /\ bundle.res.info.valido
    /\ is_valid(bundle.res)

\* C16: for a container whose certificate's not_after is earlier than the
\* time of the calls, CertificadoA1::from_bytes followed by SefazClient::new
\* never yields a client.
C16_VencidoNaoGeraCliente ==
    (bcli.kind = "built" /\ pfx.not_after < bcli.carregado) => bcli.res.kind = "err"

\* the case C16 fails on: from_bytes and then SefazClient::new succeed on a
\* container whose certificate had expired before it was loaded
C16_ClienteComVencido ==
    /\ bcli.kind = "built" /\ bcli.por = "new"
    /\ pfx.not_after < bcli.carregado
    /\ bcli.res.kind = "ok"

-----------------------------------------------------------------------------
(* Request validation and identifiers                                      *)

Validado == iop # "idle"

\* the justification of the request in hand, None when it carries none
JustDe(d) == IF d.kind = "inut" THEN Some(d.justificativa) ELSE d.justificativa

\* the number of characters of a text
Caracteres(s) == Len(s)

\* every field but the justification is as the documents require it
OutrosValidos(d) ==
    IF d.kind = "inut"
    THEN /\ d.ano >= 2006 /\ d.ano <= 2099
         /\ Caracteres(d.cnpj) = 14 /\ AllDigits(d.cnpj)
         /\ d.modelo \in {55, 65}
         /\ d.serie <= 999
         /\ 1 <= d.numero_inicial /\ d.numero_inicial <= d.numero_final
    ELSE /\ Caracteres(d.chave_acesso) = 44 /\ AllDigits(d.chave_acesso)
         /\ Caracteres(d.cnpj_destinatario) = 14

ExigeJustificativa(d) ==
    d.kind = "inut" \/ d.tipo_manifestacao = "OperacaoNaoRealizada"

\* C17: for range invalidation and for the not-realized manifestation,
\* validar rejects every justification of 14 or fewer characters and accepts
\* every justification of 15 to 255 characters when the other fields are
\* valid, the length being counted in characters.
C17_LimitesEmCaracteres ==
    (Validado /\ ExigeJustificativa(idados) /\ JustDe(idados).some) =>
        LET n == Caracteres(JustDe(idados).val) IN
        /\ n <= 14 => ires.kind = "err"
        /\ (15 <= n /\ n <= 255 /\ OutrosValidos(idados)) => ires.kind = "ok"

\* a case C17 fails on: a justification of 14 characters accepted
C17_CatorzeCaracteresAceitos ==
    /\ Validado /\ ExigeJustificativa(idados) /\ JustDe(idados).some
    /\ Caracteres(JustDe(idados).val) = 14
    /\ ires.kind = "ok"

\* C18: for the kinds acknowledge, confirm and disclaim-knowledge, validar
\* rejects every manifestation that carries a justification, so that no
\* event document with an xJust element is built for those kinds.
C18_JustificativaProibida ==
    (idados.kind = "manif" /\ ~ExigeJustificativa(idados) /\ idados.justificativa.some) =>
        /\ Validado => ires.kind = "err"
        /\ (iop = "gerar_xml" /\ ires.kind = "ok" /\ iout.kind = "ok") =>
               CountOpen(iout.xml, "xJust") = 0

\* the case C18 fails on: an acknowledgement with a justification, accepted
\* and written with its xJust
C18_CienciaComXJust ==
    /\ idados.kind = "manif" /\ idados.tipo_manifestacao = "CienciaOperacao"
    /\ iop = "gerar_xml" /\ ires.kind = "ok" /\ iout.kind = "ok"
    /\ CountOpen(iout.xml, "xJust") = 1

JustValida(d) ==
    15 <= Caracteres(d.justificativa) /\ Caracteres(d.justificativa) <= 255

CamposValidosSemFaixa(d) ==
    /\ d.ano >= 2006 /\ d.ano <= 2099
    /\ Caracteres(d.cnpj) = 14 /\ AllDigits(d.cnpj)
    /\ d.modelo \in {55, 65}
    /\ d.serie <= 999
    /\ JustValida(d)

\* C19: DadosInutilizacao::validar returns an error for every range with
\* numero_inicial > numero_final and for every range with numero_inicial = 0,
\* and accepts every range with 1 <= numero_inicial <= numero_final when the
\* other fields are valid.
C19_FaixaDeNumeros ==
    (Validado /\ idados.kind = "inut") =>
        /\ idados.numero_inicial > idados.numero_final => ires.kind = "err"
        /\ idados.numero_inicial = 0 => ires.kind = "err"
        /\ (1 <= idados.numero_inicial /\ idados.numero_inicial <= idados.numero_final
            /\ CamposValidosSemFaixa(idados)) => ires.kind = "ok"

\* the case C19 fails on: a range in order from 1 on, every other field
\* valid, rejected
C19_FaixaValidaRecusada ==
    /\ Validado /\ idados.kind = "inut"
    /\ 1 <= idados.numero_inicial /\ idados.numero_inicial <= idados.numero_final
    /\ CamposValidosSemFaixa(idados)
    /\ ires.kind = "err"

SeteValores(d, codigo_uf) ==
    <<codigo_uf, d.ano, d.cnpj, d.modelo, d.serie, d.numero_inicial, d.numero_final>>

InutilizacoesAceitas ==
    { d \in Inutilizacoes : DadosInutilizacao_validar(d).kind = "ok" }

\* the text is "ID" and 43 digits, the seven values in fields of 2, 4, 14, 2,
\* 3, 9 and 9 digits
NoLayoutDoId(id, d, codigo_uf) ==
    /\ Len(id) = 45
    /\ SubSeq(id, 1, 2) = <<"I", "D">>
    /\ AllDigits(SubSeq(id, 3, 45))
    /\ DigitsValue(SubSeq(id, 3, 4), 2) = codigo_uf
    /\ DigitsValue(SubSeq(id, 5, 8), 4) = d.ano
    /\ SubSeq(id, 9, 22) = d.cnpj
    /\ DigitsValue(SubSeq(id, 23, 24), 2) = d.modelo
    /\ DigitsValue(SubSeq(id, 25, 27), 3) = d.serie
    /\ DigitsValue(SubSeq(id, 28, 36), 9) = d.numero_inicial
    /\ DigitsValue(SubSeq(id, 37, 45), 9) = d.numero_final

\* C20: for every DadosInutilizacao that validar accepts and every two-digit
\* region code, gerar_id depends on the seven values (region, year, taxpayer
\* id, model, series, start, end) only and is "ID" followed by exactly 43
\* digits in fields of 2+4+14+2+3+9+9, so that two accepted requests have
\* the same id only if the seven values are equal.
C20_IdDeLarguraFixa ==
    (iop = "gerar_id" /\ ires.kind = "ok") =>
        /\ NoLayoutDoId(iout.id, idados, iout.codigo_uf)
        /\ \A d \in InutilizacoesAceitas, uf \in CodigosUF :
            (DadosInutilizacao_gerar_id(d, uf) = iout.id)
                <=> (SeteValores(d, uf) = SeteValores(idados, iout.codigo_uf))

\* the case C20 fails on: an accepted request whose id is longer
C20_IdMaisLongo ==
    /\ iop = "gerar_id" /\ ires.kind = "ok"
    /\ Len(iout.id) > 45

-----------------------------------------------------------------------------
(* Distribution queries: the default last NSU and the accepted queries      *)

UltNsuEscrito == extract_xml_value(iout, "ultNSU")

\* C21: in the since-last-NSU mode, when no last NSU is supplied, the query
\* written carries an ultNSU that is not empty and whose value is 0.
C21_UltimoNsuPadraoZero ==
    (iop = "gerar_xml" /\ idados.kind = "dist"
     /\ idados.tipo_consulta = "DistribuicaoNsu" /\ ~idados.ultimo_nsu.some) =>
        /\ UltNsuEscrito.some
        /\ UltNsuEscrito.val # <<>>
        /\ ParseU16(UltNsuEscrito.val) = 0

\* the case C21 fails on: no last NSU supplied, an empty ultNSU written
C21_UltNsuVazio ==
    /\ iop = "gerar_xml" /\ idados.kind = "dist"
    /\ idados.tipo_consulta = "DistribuicaoNsu" /\ ~idados.ultimo_nsu.some
    /\ UltNsuEscrito = Some(<<>>)

\* the taxpayer id is 11 or 14 ASCII digits and the field the mode requires
\* is well-formed
ConsultaBemFormada(d) ==
    /\ Len(d.documento) \in {11, 14}
    /\ AllDigits(d.documento)
    /\ d.tipo_consulta = "ConsultaNsu" => d.nsu.some
    /\ d.tipo_consulta = "ConsultaChave" =>
        (d.chave_acesso.some /\ Len(d.chave_acesso.val) = 44 /\ AllDigits(d.chave_acesso.val))

\* C22: DadosConsultaDistribuicao::validar returns Ok exactly when the
\* taxpayer id is 11 or 14 ASCII digits and the mode's required field is
\* well-formed: an NSU for by-NSU, a key of exactly 44 digits for by-key,
\* nothing more for since-last-NSU.
C22_OkSeBemFormada ==
    (iop # "idle" /\ idados.kind = "dist") =>
        (ires.kind = "ok" <=> ConsultaBemFormada(idados))

\* the case C22 fails on: a by-key query accepted with a key that is not 44 digits
C22_ChaveNaoNumericaAceita ==
    /\ iop # "idle" /\ idados.kind = "dist"
    /\ idados.tipo_consulta = "ConsultaChave"
    /\ ires.kind = "ok"
    /\ ~AllDigits(idados.chave_acesso.val)

-----------------------------------------------------------------------------
(* Claims C23..C30                                                         *)

EventoDaChamada(prot, seq, dh) ==
    IF ccall.op = "cancelar_nfe"
    THEN criar_evento_cancelamento(client, ccall.chave, prot, ccall.texto, dh)
    ELSE criar_evento_cce(client, ccall.chave, seq, ccall.texto, dh)

\* C24: in cancelar_nfe and carta_correcao the one request sent carries the
\* envelope of the signed event, the signature being computed on the event
\* as built, and only the response to that request is parsed; when signing
\* the built event fails the call ends with the signer's error, with no
\* request sent and nothing parsed
C24_EventoAssinadoAntesDoEnvio ==
    (ccall.op \in {"cancelar_nfe", "carta_correcao"} /\ cpc # "idle") =>
        \E prot \in Protocolos, seq \in Sequencias, dh \in Instantes :
            LET xml_evento == EventoDaChamada(prot, seq, dh)
                xml_assinado == assinar_evento(client.certificado, xml_evento.xml)
            IN  IF xml_evento.kind = "ok" /\ xml_assinado.kind = "ok"
                THEN /\ creqs = << [url |-> UrlOf(client, "RecepcaoEvento"),
                                    action |-> "nfeRecepcaoEvento",
                                    body |-> criar_envelope_evento(xml_assinado.xml)] >>
                     /\ cparsed # <<>> =>
                            cpc = "done" /\ cnet.kind = "resp" /\ cparsed = <<cnet.text>>
                     /\ (cpc = "done" /\ cout.kind = "ok") =>
                            cparsed = <<cnet.text>> /\ cout.val = parsear_evento(cnet.text)
                ELSE xml_evento.kind = "ok" =>
                        /\ creqs = <<>> /\ cparsed = <<>> /\ cnet = NoNet
                        /\ cpc = "done"
                        /\ cout.kind = "err" /\ cout.err = xml_assinado.err

\* a cancellation ended on the signer's error: the private key did not load
C24_AssinaturaFalhou ==
    /\ ccall.op = "cancelar_nfe" /\ cpc = "done"
    /\ ~client.certificado.keyok
    /\ Len(ccall.chave) = 44
    /\ cout.kind = "err" /\ cout.err # ""
    /\ creqs = <<>>

\* C25: on every body of 43 digits calcular_dv_mod11 and calcular_dv both
\* return the check digit of the published rule (weights 2..9 cycling from
\* the rightmost digit, sum modulo 11, 0 for the remainders 0 and 1, else 11
\* minus the remainder), a value in 0..9
C25_DoisCalculosComoAReferencia ==
    kstep = "corpo" =>
        /\ Len(kargs) = 43 /\ AllDigits(kargs)
        /\ kres.ok => kres.dv = RefDV(kargs) /\ kres.dv \in 0..9
        /\ vres.ok => vres.dv = RefDV(kargs) /\ vres.dv \in 0..9

\* both functions have returned 0 on a body whose weighted sum leaves 1
C25_RestoUmDaZero ==
    /\ kstep = "corpo"
    /\ kres.ok /\ vres.ok
    /\ RefResto(kargs) = 1
    /\ kres.dv = 0 /\ vres.dv = 0

\* a certificate and a client as one load stores them: both absent, or both
\* present with the client holding that certificate
ParDeUmaCarga(certificado, sefaz_client) ==
    /\ certificado.some <=> sefaz_client.some
    /\ certificado.some => sefaz_client.val.certificado = certificado.val

\* C26: in every reachable GraphQLState certificado and sefaz_client are
\* both absent or both present with the client built from that certificate,
\* and the certificate and the client an emitir_nfe works with are such a
\* pair, however carregar_certificado and the other resolvers interleave
C26_CertificadoEClienteDaMesmaCarga ==
    /\ ParDeUmaCarga(gstate.certificado, gstate.sefaz_client)
    /\ \A t \in DOMAIN tasks :
          (tasks[t].op = "emitir_nfe" /\ tasks[t].pc \in {"awaiting", "done"}) =>
              ParDeUmaCarga(tasks[t].cert, tasks[t].cli)

\* an emitir_nfe is in flight with the pair of one load while a second load
\* of another certificate waits for the write guard
C26_CargaEsperaEmissao ==
    /\ DOMAIN tasks = Tarefas
    /\ \E t, u \in Tarefas :
          /\ tasks[t].op = "emitir_nfe" /\ tasks[t].pc = "awaiting"
          /\ tasks[u].op = "carregar_certificado" /\ tasks[u].pc = "built"
          /\ tasks[u].res.cert # tasks[t].cert.val

\* the load of a container fails at one of its steps when the clock shows agora
CargaFalha(pfx_data, agora) ==
    \/ pfx_data.forma = "base64"
    \/ from_bytes(pfx_data, agora).kind = "err"
    \/ ~is_valid(from_bytes(pfx_data, agora))
    \/ SefazClient_new_bundle(from_bytes(pfx_data, agora), <<"s","p">>, "Producao").kind
           = "err"

\* C27: no step of a carregar_certificado whose load fails (decoding, container
\* parsing, is_valid() false, client construction) changes the GraphQLState,
\* and the resolver ends with Err
C27_CargaFalhaNaoAlteraEstado ==
    [][\A t \in DOMAIN tasks :
          (t \in DOMAIN tasks' /\ tasks'[t] # tasks[t]
           /\ tasks'[t].op = "carregar_certificado"
           /\ CargaFalha(tasks'[t].pfx, now)) =>
              /\ gstate' = gstate
              /\ tasks'[t].pc = "done" /\ tasks'[t].out = "Err"]_vars

\* a load has failed while the certificate and client of an earlier load
\* are in the state
C27_FalhaComCertificadoCarregado ==
    /\ DOMAIN tasks = Tarefas
    /\ gstate.certificado.some /\ gstate.sefaz_client.some
    /\ \E t \in Tarefas :
          /\ tasks[t].op = "carregar_certificado" /\ tasks[t].pc = "done"
          /\ tasks[t].out = "Err"
          /\ tasks[t].res.err = "Certificado expirado ou invalido"

\* the lookup in hand got a response that the authority answered with
\* status code 100
RespostaComCem ==
    /\ cnet.kind = "resp" /\ is_success(cnet.status) /\ cnet.bodyok
    /\ UnwrapOr(extract_xml_value(cnet.text, "cStat"), <<>>) = Cem

\* C28: a lookup returns sucesso = true with status code 100 only when the
\* response to its request carried that code
C28_CemSoComRespostaDaAutoridade ==
    (cpc = "done" /\ cout.kind = "ok" /\ cout.val.sucesso /\ cout.val.codigo_status = Cem)
        => RespostaComCem

\* the REST route reported success with code 100 for a lookup whose request
\* never got a response
C28_FalhaViraSucesso ==
    /\ cpc = "done" /\ ccall.op = "main_consultar_nfe"
    /\ creqs # <<>> /\ cnet.kind = "conn"
    /\ cout.kind = "ok" /\ cout.val.sucesso /\ cout.val.codigo_status = Cem

\* the positions of the opening tags of exactly the element el in xml
AberturasExatas(xml, el) ==
    { i \in 1..Len(xml) : xml[i].k \in {"open", "empty"} /\ xml[i].n = el }

\* C29: every assinar_* call ends with Ok or Err, never in a panic, and it
\* returns Ok only for a document that has an opening tag of exactly the
\* signed element with the element's closing tag after it, the signature
\* being placed right after that closing tag
C29_AssinarTerminaSemPanico ==
    sel # "" =>
        /\ sres.kind \in {"ok", "err"}
        /\ sres.kind = "ok" =>
              \E i \in AberturasExatas(sin, sel) :
                  \E j \in (i + 1)..Len(sin) :
                      /\ sin[j] = Close(sel)
                      /\ find_element(sin, sel).start = i
                      /\ find_element(sin, sel).end = j

\* a call panicked on a document whose closing tag of the signed element
\* comes before its opening tag
C29_PanicoFechamentoAntesDaAbertura ==
    /\ sel # "" /\ sres.kind = "panic"
    /\ \E i \in AberturasExatas(sin, sel) :
          \E j \in 1..(i - 1) : sin[j] = Close(sel)

\* the base URLs of the production endpoints
BasesDeProducao ==
    { get_base_url(WebServiceUrls_new(uf, "Producao")) :
        uf \in { <<"S","P">>, <<"R","S">>, <<"M","G">>, <<"P","R">>, <<"X","X">> } }

\* the tpAmb a message posted to url has to carry
TpAmbDaUrl(url) == IF url[1] \in BasesDeProducao THEN <<"1">> ELSE <<"2">>

\* the values of the tpAmb elements of a message
TpAmbs(body) == { body[i + 1] : i \in { j \in 1..(Len(body) - 1) : body[j] = Open("tpAmb") } }

\* C30: every message of a status, lookup, cancellation or correction-letter
\* call and of the emitir_nfe mutation carries the environment of the
\* endpoint it is posted to: tpAmb 1 to a production URL, 2 to a
\* homologation URL
C30_TpAmbDoEndpoint ==
    ccall.op \in {"status_servico", "consultar_nfe", "cancelar_nfe", "carta_correcao",
                  "emitir_nfe"} =>
        \A i \in 1..Len(creqs) :
            TpAmbs(creqs[i].body) = { Text(TpAmbDaUrl(creqs[i].url)) }

\* emitir_nfe posted a document that says homologation to a production URL
C30_HomologacaoEmProducao ==
    /\ ccall.op = "emitir_nfe" /\ creqs # <<>>
    /\ gstate.sefaz_client.some /\ gstate.sefaz_client.val.ambiente = "Producao"
    /\ creqs[1].url[1] \in BasesDeProducao
    /\ TpAmbs(creqs[1].body) = { Text(<<"2">>) }

=============================================================================
